---- MODULE Spec2Model ----
(***************************************************************************)
(* Reconciliation engine of the VAST Ansible collection: the schema-driven *)
(* diff engine (plugins/module_utils/vast/diff.py), the async task waiter  *)
(* (waiter.py) and the CRUD lifecycle that drives them (resource.py,       *)
(* managers/base.py).                                                      *)
(*                                                                         *)
(* Python values are encoded as sequences of strings so that any two of    *)
(* them can be compared: <<"None">>, <<"False">>, <<"True">>,              *)
(* <<"str", s>>, <<"int", n>> and <<"list", e1, ..., en>>.  The elements   *)
(* of a list are atoms: "a" and "b" are strings, "1" is an integer (not    *)
(* orderable against a string) and "{}" is a mapping (not hashable).       *)
(* A dict is a function whose DOMAIN is its set of keys.                   *)
(***************************************************************************)
EXTENDS Integers, Sequences, FiniteSets, TLC

VARIABLES
    \* ---- diff engine: normalize_resource twice (SpecNorm)
    resource,            \* the resource given to normalize_resource (an optional dict)
    exclude_immutable,   \* flag of normalize_resource
    include_ephemeral,   \* flag of normalize_resource
    normalized,          \* normalize_resource(resource, ...)
    renormalized,        \* normalize_resource(normalized, ...)
    \* ---- diff engine: compute_patch (SpecPatch)
    current,             \* current mapping given to compute_patch
    desired,             \* desired mapping given to compute_patch
    overrides,           \* the field classification in use (all specifications)
    patch,               \* compute_patch(current, desired, overrides)
    applied,             \* {**current, **patch}
    repatch,             \* compute_patch(applied, desired, overrides)
    diff,                \* ResourceManager.compute_diff(current, desired)
    changes,             \* has_changes(current, desired, overrides)
    dpc,                 \* position of the diff-engine scenario
    \* ---- async task waiter: TaskWaiter.wait_for_task (SpecWait)
    task_id,             \* the task waited for
    target_state,        \* the state wait_for_resource_state waits for
    timeout,             \* TaskWaiter.timeout
    poll_interval,       \* TaskWaiter.poll_interval
    now,                 \* time.time()
    start_time,          \* local start_time
    last_state,          \* local last_state
    task,                \* the status mapping of the latest poll
    polled,              \* the states the remote reported, poll by poll
    queries,             \* calls of _get_task made so far
    api_calls,           \* endpoint gets (vtasks, async_tasks) made so far
    result,              \* the mapping wait_for_task returned
    error,               \* the VastAPIError wait_for_task raised
    wpc,                 \* position of wait_for_task
    \* ---- CRUD lifecycle: BaseResource.run, run twice (SpecRun)
    params,              \* module.params
    check_mode,          \* module.check_mode
    include_ephemeral_in_updates,  \* class attribute of the resource
    remote,              \* the resource the remote stores (an optional dict)
    changed,             \* local changed of the run in progress
    calls,               \* create/update/delete calls of the run in progress
    log,                 \* what each finished run did and reported
    rpc,                 \* position of run
    \* ---- one operation of a manager or resource (SpecExtract, SpecOp)
    response,            \* what the API call of the operation answered
    extracted,           \* what each task-id extractor made of the response
    layer,               \* the class of the operation: ResourceManager or BaseResource
    op,                  \* the method called: get, create, update or delete
    is_async,            \* the async_create / async_update / async_delete flag of op
    wait,                \* self.wait, or params.get("wait", True)
    wait_timeout,        \* self.wait_timeout, or params.get("wait_timeout", 300)
    api_log,             \* the calls made on the API, in order
    returned,            \* what the operation returned to its caller
    raised,              \* how the operation ended otherwise
    opc                  \* position of the operation

diffVars == <<resource, exclude_immutable, include_ephemeral, normalized,
              renormalized, current, desired, overrides, patch, applied,
              repatch, diff, changes, dpc>>

waitVars == <<task_id, target_state, timeout, poll_interval, now, start_time, last_state, task,
              polled, queries, api_calls, result, error, wpc>>

runVars == <<params, check_mode, include_ephemeral_in_updates, remote, changed,
             calls, log, rpc>>

opVars == <<response, extracted, layer, op, is_async, wait, wait_timeout, api_log,
            returned, raised, opc>>

vars == <<diffVars, waitVars, runVars, opVars>>

-----------------------------------------------------------------------------
(* Bounds of the model *)

\* longest list held by a list-valued field
MaxLen == 2

\* largest timeout of a waiter, in seconds
MaxTimeout == 3

\* largest poll interval of a waiter, in seconds
MaxPollInterval == 2

\* longest time one status query takes, in seconds
MaxQueryTime == 1

-----------------------------------------------------------------------------
(* Python values *)

NoneVal == <<"None">>
FalseVal == <<"False">>
TrueVal == <<"True">>
StrVal(s) == <<"str", s>>
IntVal(n) == <<"int", n>>
ListVal(items) == <<"list">> \o items

IsList(v) == v[1] = "list"
Items(v) == Tail(v)

\* the empty dict {}
EmptyDict == [k \in {} |-> NoneVal]

\* an optional dict: None, or a dict d
NoDict == [some |-> FALSE, d |-> EmptyDict]
Some(d) == [some |-> TRUE, d |-> d]

\* dict.get(key): None when the key is missing
Get(d, key) == IF key \in DOMAIN d THEN d[key] ELSE NoneVal

\* {**base, **over}
Merge(base, over) ==
    [k \in DOMAIN base \cup DOMAIN over |->
        IF k \in DOMAIN over THEN over[k] ELSE base[k]]

\* Python truthiness of a dict: bool(d)
Truthy(d) == DOMAIN d # {}

(* list elements *)
StrAtoms == {"a", "b"}
Atoms == {"a", "b", "1", "{}"}
AtomType(a) == IF a \in StrAtoms THEN "str" ELSE IF a = "1" THEN "int" ELSE "dict"
Hashable(a) == AtomType(a) # "dict"
\* the order of < among strings
AtomRank(a) == IF a = "a" THEN 1 ELSE IF a = "b" THEN 2 ELSE 0

Range(s) == {s[i] : i \in 1..Len(s)}

\* set(items) raises TypeError when an element is unhashable
SetRaises(items) == \E x \in Range(items) : ~Hashable(x)

\* sorted(set(items)) raises TypeError when set() does, or when two distinct
\* elements are not orderable against each other
SortedSetRaises(items) ==
    \/ SetRaises(items)
    \/ \E x, y \in Range(items) : AtomType(x) # AtomType(y)

RECURSIVE SortSet(_)
\* sorted(S) for a set S of mutually orderable atoms
SortSet(S) ==
    IF S = {} THEN <<>>
    ELSE LET m == CHOOSE x \in S : \A y \in S : AtomRank(x) <= AtomRank(y)
         IN  <<m>> \o SortSet(S \ {m})

RECURSIVE Dedupe(_, _)
\* the loop of diff.py lines 29-33: seen so far, items still to visit
Dedupe(seen, items) ==
    IF items = <<>> THEN seen
    ELSE IF Head(items) \in Range(seen) THEN Dedupe(seen, Tail(items))
    ELSE Dedupe(Append(seen, Head(items)), Tail(items))

-----------------------------------------------------------------------------
(* Field classification: schema_overrides.py *)

Keys == {"id", "guid", "path", "create_dir", "protocols", "s3_versioning"}

\* OVERRIDES["views"], restricted to the fields of Keys
ViewsOverrides ==
    [read_only_fields |-> {"id", "guid"},
     immutable_fields |-> {"path"},
     ephemeral_fields |-> {"create_dir"},
     set_like_lists   |-> {"protocols"}]

\* the fallback of get_overrides for a resource type without an entry
DefaultOverrides ==
    [read_only_fields |-> {"id", "guid"},
     immutable_fields |-> {},
     set_like_lists   |-> {}]

\* a classification whose sets overlap (the sets are only "disjoint-ish")
OverlapOverrides ==
    [read_only_fields |-> {"id"},
     immutable_fields |-> {"protocols"},
     ephemeral_fields |-> {"create_dir", "s3_versioning"},
     set_like_lists   |-> {"protocols", "s3_versioning"}]

\* overrides=None of compute_patch and has_changes
NoneOverrides == [is_none |-> TRUE]

Classifications == {ViewsOverrides, DefaultOverrides, OverlapOverrides}

\* overrides.get(name, set())
OverridesGet(ov, name) == IF name \in DOMAIN ov THEN ov[name] ELSE {}

-----------------------------------------------------------------------------
(* diff.py *)

RECURSIVE DedupeFront(_, _)
\* the loop of lines 29-33 with seen.insert(0, item) for seen.append(item)
DedupeFront(seen, items) ==
    IF items = <<>> THEN seen
    ELSE IF Head(items) \in Range(seen) THEN DedupeFront(seen, Tail(items))
    ELSE DedupeFront(<<Head(items)>> \o seen, Tail(items))

\* normalize_value whose fallback does not keep the first-seen order
normalize_value_front(value, set_like) ==
    IF value = NoneVal THEN NoneVal
    ELSE IF set_like /\ IsList(value)
         THEN IF ~SortedSetRaises(Items(value))
              THEN ListVal(SortSet(Range(Items(value))))
              ELSE ListVal(DedupeFront(<<>>, Items(value)))
         ELSE value

normalize_value(value, set_like) ==
    IF value = NoneVal THEN NoneVal
    ELSE IF set_like /\ IsList(value)
         THEN IF ~SortedSetRaises(Items(value))
              THEN ListVal(SortSet(Range(Items(value))))
              ELSE ListVal(Dedupe(<<>>, Items(value)))
         ELSE value

\* normalize_resource dropping ephemeral fields whatever include_ephemeral says
NormalizeKeeps_always_ephemeral(key, ov, excl_immutable, incl_ephemeral) ==
    LET read_only == OverridesGet(ov, "read_only_fields")
        ephemeral == OverridesGet(ov, "ephemeral_fields")
        immutable == IF excl_immutable THEN OverridesGet(ov, "immutable_fields") ELSE {}
    IN  /\ key \notin read_only
        /\ key \notin ephemeral
        /\ key \notin immutable

\* the keys normalize_resource keeps
NormalizeKeeps(key, ov, excl_immutable, incl_ephemeral) ==
    LET read_only == OverridesGet(ov, "read_only_fields")
        ephemeral == OverridesGet(ov, "ephemeral_fields")
        immutable == IF excl_immutable THEN OverridesGet(ov, "immutable_fields") ELSE {}
    IN  /\ key \notin read_only
        /\ ~(~incl_ephemeral /\ key \in ephemeral)
        /\ key \notin immutable

normalize_resource(res, ov, excl_immutable, incl_ephemeral) ==
    IF ~res.some \/ ~Truthy(res.d) THEN EmptyDict
    ELSE LET set_like == OverridesGet(ov, "set_like_lists")
             kept == {k \in DOMAIN res.d :
                         NormalizeKeeps(k, ov, excl_immutable, incl_ephemeral)}
         IN  [k \in kept |-> normalize_value(res.d[k], k \in set_like)]

\* values_equal answering False when set() raises, for the fallback of line 116
values_equal_unhashable_differs(current_val, desired_val, set_like) ==
    IF current_val = NoneVal /\ desired_val = NoneVal THEN TRUE
    ELSE IF desired_val = FalseVal /\ current_val = NoneVal THEN TRUE
    ELSE IF set_like /\ IsList(current_val) /\ IsList(desired_val)
         THEN /\ ~SetRaises(Items(current_val)) /\ ~SetRaises(Items(desired_val))
              /\ Range(Items(current_val)) = Range(Items(desired_val))
         ELSE current_val = desired_val

\* values_equal without the set-like comparison of lines 108-114
values_equal_no_set(current_val, desired_val, set_like) ==
    IF current_val = NoneVal /\ desired_val = NoneVal THEN TRUE
    ELSE IF desired_val = FalseVal /\ current_val = NoneVal THEN TRUE
    ELSE current_val = desired_val

\* values_equal without the absent-is-false rule of lines 105-106
values_equal_no_false_rule(current_val, desired_val, set_like) ==
    IF current_val = NoneVal /\ desired_val = NoneVal THEN TRUE
    ELSE IF /\ set_like /\ IsList(current_val) /\ IsList(desired_val)
            /\ ~SetRaises(Items(current_val)) /\ ~SetRaises(Items(desired_val))
         THEN Range(Items(current_val)) = Range(Items(desired_val))
         ELSE current_val = desired_val

\* values_equal comparing set-like lists by length as well as by elements
values_equal_counting(current_val, desired_val, set_like) ==
    IF current_val = NoneVal /\ desired_val = NoneVal THEN TRUE
    ELSE IF desired_val = FalseVal /\ current_val = NoneVal THEN TRUE
    ELSE IF /\ set_like /\ IsList(current_val) /\ IsList(desired_val)
            /\ ~SetRaises(Items(current_val)) /\ ~SetRaises(Items(desired_val))
         THEN /\ Range(Items(current_val)) = Range(Items(desired_val))
              /\ Len(current_val) = Len(desired_val)
         ELSE current_val = desired_val

values_equal(current_val, desired_val, set_like) ==
    IF current_val = NoneVal /\ desired_val = NoneVal THEN TRUE
    ELSE IF desired_val = FalseVal /\ current_val = NoneVal THEN TRUE
    ELSE IF /\ set_like /\ IsList(current_val) /\ IsList(desired_val)
            /\ ~SetRaises(Items(current_val)) /\ ~SetRaises(Items(desired_val))
         THEN Range(Items(current_val)) = Range(Items(desired_val))
         ELSE current_val = desired_val

\* compute_patch storing the current value for a changed key
compute_patch_current_val(cur, des, ov) ==
    LET o == IF ov = NoneOverrides THEN EmptyDict ELSE ov
        set_like_lists == OverridesGet(o, "set_like_lists")
        differing == {key \in DOMAIN des :
                       /\ des[key] # NoneVal
                       /\ ~values_equal(Get(cur, key), des[key], key \in set_like_lists)}
    IN  [key \in differing |-> Get(cur, key)]

\* compute_patch without the null check of lines 148-149
compute_patch_keeps_null(cur, des, ov) ==
    LET o == IF ov = NoneOverrides THEN EmptyDict ELSE ov
        set_like_lists == OverridesGet(o, "set_like_lists")
        differing == {key \in DOMAIN des :
                       ~values_equal(Get(cur, key), des[key], key \in set_like_lists)}
    IN  [key \in differing |-> des[key]]

compute_patch(cur, des, ov) ==
    LET o == IF ov = NoneOverrides THEN EmptyDict ELSE ov
        set_like_lists == OverridesGet(o, "set_like_lists")
        differing == {key \in DOMAIN des :
                       /\ des[key] # NoneVal
                       /\ ~values_equal(Get(cur, key), des[key], key \in set_like_lists)}
    IN  [key \in differing |-> des[key]]

\* has_changes dropping the classification it was given
has_changes_without_overrides(cur, des, ov) == Truthy(compute_patch(cur, des, NoneOverrides))

\* lines 160-175: bool(compute_patch(current, desired, overrides))
has_changes(cur, des, ov) == Truthy(compute_patch(cur, des, ov))

\* managers/base.py: ResourceManager.compute_diff
compute_diff(cur, des, ov) ==
    compute_patch(normalize_resource(Some(cur), ov, FALSE, FALSE),
                  normalize_resource(Some(des), ov, FALSE, FALSE), ov)

-----------------------------------------------------------------------------
(* waiter.py: TaskWaiter *)

STATE_PENDING == "PENDING"
STATE_RUNNING == "RUNNING"
STATE_COMPLETED == "COMPLETED"
STATE_SUCCESS == "SUCCESS"
STATE_FAILED == "FAILED"
STATE_ERROR == "ERROR"
STATE_CANCELLED == "CANCELLED"

\* TERMINAL_STATES with the default label UNKNOWN counted as terminal
TERMINAL_STATES_with_unknown ==
    {STATE_COMPLETED, STATE_SUCCESS, STATE_FAILED, STATE_ERROR, STATE_CANCELLED, "UNKNOWN"}
\* line 29
TERMINAL_STATES == {STATE_COMPLETED, STATE_SUCCESS, STATE_FAILED, STATE_ERROR, STATE_CANCELLED}
\* SUCCESS_STATES with FAILED counted as a success
SUCCESS_STATES_with_failed == {STATE_COMPLETED, STATE_SUCCESS, STATE_FAILED}
SUCCESS_STATES == {STATE_COMPLETED, STATE_SUCCESS}

\* str(None), the last known state before the first poll
NoState == "None"

\* a task status mapping: a dict with string values
EmptyTask == [k \in {} |-> ""]
TaskOf(k, v) == [x \in {k} |-> v]

\* task.get(key, default)
TaskGet(t, key, default) == IF key \in DOMAIN t THEN t[key] ELSE default

\* line 71 reading the status field first
TaskState_status_first(t) == TaskGet(t, "status", TaskGet(t, "state", "UNKNOWN"))
\* line 71: task.get("state", task.get("status", "UNKNOWN"))
TaskState(t) == TaskGet(t, "state", TaskGet(t, "status", "UNKNOWN"))

\* line 78 preferring the message text
TaskErrorText_message_first(t) == TaskGet(t, "message", TaskGet(t, "error", "Unknown error"))
\* line 78: task.get("error", task.get("message", "Unknown error"))
TaskErrorText(t) == TaskGet(t, "error", TaskGet(t, "message", "Unknown error"))

\* a VastAPIError: what it is about and the texts its message embeds
NoError == [kind |-> "none", id |-> <<>>, state |-> "", text |-> ""]
\* line 68 leaving the last known state out of the message
TimeoutError_without_state(id, last) == [kind |-> "timeout", id |-> id, state |-> "", text |-> ""]
\* line 68
TimeoutError(id, last) == [kind |-> "timeout", id |-> id, state |-> last, text |-> ""]
\* line 79
TaskFailedError(id, state, text) == [kind |-> "task_failed", id |-> id, state |-> state, text |-> text]
\* line 107
UnavailableError(id) == [kind |-> "unavailable", id |-> id, state |-> "", text |-> ""]
\* line 109, wrapping the exception e
GetFailedError(id, e) == [kind |-> "get_failed", id |-> id, state |-> "", text |-> e]

\* the answers of one endpoint of the client to get(id=task_id)
NotCalled == [kind |-> "not_called", task |-> EmptyTask]
AttributeErrorRaised == [kind |-> "attribute_error", task |-> EmptyTask]
ExceptionRaised == [kind |-> "exception", task |-> EmptyTask]
EmptyAnswer == [kind |-> "empty", task |-> EmptyTask]
ListAnswer(t) == [kind |-> "list", task |-> t]
DictAnswer(t) == [kind |-> "dict", task |-> t]

\* truthiness of an answer: a non-empty list, or a non-empty dict
AnswerTruthy(a) == a.kind = "list" \/ (a.kind = "dict" /\ a.task # EmptyTask)

\* _get_task as a function of the two endpoints' answers: the task it returns
\* or the VastAPIError it raises
get_task(id, vtasks, async_tasks) ==
    IF vtasks.kind = "attribute_error" THEN [ok |-> FALSE, task |-> EmptyTask, error |-> UnavailableError(id)]
    ELSE IF vtasks.kind = "exception" THEN [ok |-> FALSE, task |-> EmptyTask, error |-> GetFailedError(id, "exception")]
    ELSE IF AnswerTruthy(vtasks) THEN [ok |-> TRUE, task |-> vtasks.task, error |-> NoError]
    ELSE IF async_tasks.kind = "attribute_error" THEN [ok |-> FALSE, task |-> EmptyTask, error |-> UnavailableError(id)]
    ELSE IF async_tasks.kind = "exception" THEN [ok |-> FALSE, task |-> EmptyTask, error |-> GetFailedError(id, "exception")]
    ELSE IF AnswerTruthy(async_tasks) THEN [ok |-> TRUE, task |-> async_tasks.task, error |-> NoError]
    ELSE [ok |-> FALSE, task |-> EmptyTask, error |-> GetFailedError(id, "not found")]

\* the deadline test giving up one second before the timeout
DeadlineReached_early(elapsed, limit) == elapsed + 1 >= limit
\* the deadline test letting the iteration at the timeout itself go on
DeadlineReached_late(elapsed, limit) == elapsed > limit
\* lines 67, 130 and 201: elapsed >= timeout
DeadlineReached(elapsed, limit) == elapsed >= limit

\* the endpoint gets one call of _get_task makes
ApiCalls(vtasks, async_tasks) == IF async_tasks.kind = "not_called" THEN 1 ELSE 2

(* waiter.py: TaskWaiter.wait_for_condition *)

\* line 131
ConditionTimeoutError == [kind |-> "condition_timeout", id |-> <<>>, state |-> "", text |-> ""]

\* what one call of check_fn does
CheckOutcomes == {"True", "False", "raises"}

\* lines 133-138 letting the exception of check_fn through
AfterCheck_propagating(outcome) ==
    CASE outcome = "True" -> "return"
      [] outcome = "False" -> "sleep"
      [] outcome = "raises" -> "raise"

\* lines 133-138: return on a true answer; an exception is passed over
AfterCheck(outcome) ==
    CASE outcome = "True" -> "return"
      [] outcome = "False" -> "sleep"
      [] outcome = "raises" -> "sleep"

(* waiter.py: wait_for_resource_state *)

\* line 219
ERROR_STATES == {"ERROR", "FAILED", "DELETED"}

\* lines 202-204
ResourceTimeoutError(target) ==
    [kind |-> "resource_timeout", id |-> <<>>, state |-> target, text |-> ""]

\* line 221
ResourceStateError(state, text) ==
    [kind |-> "resource_error", id |-> <<>>, state |-> state, text |-> text]

\* the answer None of api[resource_id].get()
NoneAnswer == [kind |-> "none", task |-> EmptyTask]

\* lines 208-211: the resource a poll reads; an exception and the answer None
\* (line 213 raises AttributeError on it) are passed over by line 224
ResourceRead(a) ==
    IF a.kind \in {"exception", "attribute_error", "none"}
    THEN [ok |-> FALSE, resource |-> EmptyTask]
    ELSE [ok |-> TRUE, resource |-> a.task]

\* line 213: resource.get("state", resource.get("status")), None as "None"
ResourceState(r) == TaskGet(r, "state", TaskGet(r, "status", NoState))

\* lines 215-221 testing for an error state before testing for the target
AfterPoll_error_first(state, target) ==
    IF state \in ERROR_STATES THEN "raise"
    ELSE IF state = target THEN "return"
    ELSE "sleep"

\* lines 215-221: the target state is tested for first
AfterPoll(state, target) ==
    IF state = target THEN "return"
    ELSE IF state \in ERROR_STATES THEN "raise"
    ELSE "sleep"

(* waiter.py: extract_task_id *)

\* An API response is a dict; the mapping nested under its key async_task is
\* flattened into the keys "async_task.id" and "async_task.task_id", and the
\* value of "async_task" itself tells a mapping (DictVal) from None.
DictVal == <<"dict">>

\* bool(v) of a value
PyTruthy(v) == v \notin {NoneVal, FalseVal, IntVal("0"), StrVal("")}

\* a or b
PyOr(a, b) == IF PyTruthy(a) THEN a ELSE b

\* what a call of an extractor does: return a value, or raise
NotExtracted == [raised |-> "not_called", value |-> NoneVal]
Returns(v) == [raised |-> "none", value |-> v]
Raises(e) == [raised |-> e, value |-> NoneVal]

\* async_task.get(key) of the nested mapping
NestedGet(resp, key) == Get(resp, "async_task." \o key)

\* extract_task_id testing the nested identifiers for truth, as the two
\* _extract_task_id methods do, instead of for presence
extract_task_id_by_truth(resp) ==
    IF "task_id" \in DOMAIN resp THEN Returns(resp["task_id"])
    ELSE IF "async_task" \in DOMAIN resp /\ resp["async_task"] = NoneVal
         THEN Raises("TypeError")
    ELSE IF PyTruthy(PyOr(NestedGet(resp, "id"), NestedGet(resp, "task_id")))
         THEN Returns(PyOr(NestedGet(resp, "id"), NestedGet(resp, "task_id")))
    ELSE IF "id" \in DOMAIN resp /\ Get(resp, "type") = StrVal("async_task")
         THEN Returns(resp["id"])
    ELSE Returns(NoneVal)

\* lines 143-169; line 160 raises TypeError when async_task is None
extract_task_id(resp) ==
    IF "task_id" \in DOMAIN resp THEN Returns(resp["task_id"])
    ELSE IF "async_task" \in DOMAIN resp /\ resp["async_task"] = NoneVal
         THEN Raises("TypeError")
    ELSE IF "async_task.id" \in DOMAIN resp THEN Returns(resp["async_task.id"])
    ELSE IF "async_task.task_id" \in DOMAIN resp THEN Returns(resp["async_task.task_id"])
    ELSE IF "id" \in DOMAIN resp /\ Get(resp, "type") = StrVal("async_task")
         THEN Returns(resp["id"])
    ELSE Returns(NoneVal)

-----------------------------------------------------------------------------
(* managers/base.py: ResourceManager *)

\* an answer of the API, or a value an operation returns: nothing (yet), an
\* exception, None, a dict d, or a list of dicts
Nothing == [kind |-> "nothing", d |-> EmptyDict, items |-> <<>>]
ApiRaises == [kind |-> "exception", d |-> EmptyDict, items |-> <<>>]
NoneResult == [kind |-> "None", d |-> EmptyDict, items |-> <<>>]
DictResult(d) == [kind |-> "dict", d |-> d, items |-> <<>>]
ListResult(items) == [kind |-> "list", d |-> EmptyDict, items |-> items]

\* bool(result)
ResultTruthy(a) == (a.kind = "list" /\ a.items # <<>>) \/ (a.kind = "dict" /\ a.d # EmptyDict)

\* how an operation ends: it returns a value, or an exception leaves it
OpReturns(v) == [returned |-> v, raised |-> "none"]
OpRaises(e) == [returned |-> Nothing, raised |-> e]

\* ResourceManager.lookup_field, line 32
manager_lookup_field == "name"

\* an entry of the log of API calls
ApiCall(method, by) == [method |-> method, by |-> by]

\* TaskWaiter.__init__: poll_interval when the caller gives none
DefaultPollInterval == 5

\* get returning None when the API call raises
manager_get_swallowing(results) ==
    IF results.kind = "exception" THEN OpReturns(NoneResult)
    ELSE IF ~ResultTruthy(results) THEN OpReturns(NoneResult)
    ELSE IF results.kind = "list" THEN OpReturns(DictResult(results.items[1]))
    ELSE OpReturns(results)

\* lines 64-72: what get makes of the answer of api.get
manager_get(results) ==
    IF results.kind = "exception" THEN OpRaises("VastAPIError")
    ELSE IF ~ResultTruthy(results) THEN OpReturns(NoneResult)
    ELSE IF results.kind = "list" THEN OpReturns(DictResult(results.items[1]))
    ELSE OpReturns(results)

\* lines 93, 118, 143 waiting whenever the operation is flagged async
MustWait_ignoring_wait(async_flag, wait_flag) == async_flag

\* lines 93, 118, 143 (resource.py 239, 269, 298): self.async_<op> and self.wait
MustWait(async_flag, wait_flag) == async_flag /\ wait_flag

\* the HTTP method of an operation
Method(operation) ==
    CASE operation = "create" -> "post"
      [] operation = "update" -> "patch"
      [] operation = "delete" -> "delete"
      [] operation = "get" -> "get"

\* line 138 (resource.py 293): result = result if result else {}
OpResult(operation, answer) ==
    IF operation = "delete" /\ ~ResultTruthy(answer) THEN DictResult(EmptyDict) ELSE answer

\* lines 182-206; line 198 raises AttributeError when async_task is None
ManagerExtractTaskId(resp) ==
    IF "task_id" \in DOMAIN resp THEN Returns(resp["task_id"])
    ELSE IF "async_task" \in DOMAIN resp /\ resp["async_task"] = NoneVal
         THEN Raises("AttributeError")
    ELSE IF /\ "async_task" \in DOMAIN resp
            /\ PyTruthy(PyOr(NestedGet(resp, "id"), NestedGet(resp, "task_id")))
         THEN Returns(PyOr(NestedGet(resp, "id"), NestedGet(resp, "task_id")))
    ELSE IF "id" \in DOMAIN resp /\ Get(resp, "type") = StrVal("async_task")
         THEN Returns(resp["id"])
    ELSE Returns(NoneVal)

-----------------------------------------------------------------------------
(* resource.py: BaseResource *)

\* lines 165-218 with resource_id given: what get makes of the answer of
\* api[resource_id].get(); an exception that looks like a 404 gives None
resource_get_by_id(res) ==
    IF res.kind = "exception" THEN OpRaises("VastAPIError")
    ELSE IF res.kind = "list" /\ res.items # <<>> THEN OpReturns(DictResult(res.items[1]))
    ELSE IF res.kind = "dict" THEN OpReturns(res)
    ELSE OpReturns(NoneResult)

\* lines 242 and 272: create refreshes a result that holds an id and is not a
\* task object, update always does
Refreshes(operation, res) ==
    \/ operation = "update"
    \/ /\ operation = "create"
       /\ "id" \in DOMAIN res.d
       /\ Get(res.d, "type") # StrVal("async_task")

\* lines 478-510, for a response that is a dict; line 501 reads a null
\* async_task as the empty mapping
ResourceExtractTaskId(resp) ==
    IF "task_id" \in DOMAIN resp THEN Returns(resp["task_id"])
    ELSE IF /\ "async_task" \in DOMAIN resp
            /\ resp["async_task"] # NoneVal
            /\ PyTruthy(PyOr(NestedGet(resp, "id"), NestedGet(resp, "task_id")))
         THEN Returns(PyOr(NestedGet(resp, "id"), NestedGet(resp, "task_id")))
    ELSE IF "id" \in DOMAIN resp /\ Get(resp, "type") = StrVal("async_task")
         THEN Returns(resp["id"])
    ELSE Returns(NoneVal)

\* lines 312-323
exclude_keys == {"vms", "id", "state", "wait", "wait_timeout", "query",
                 "set_posix_primary", "revoke", "revoke_access_keys"}

\* build_desired_state keeping the parameters that are None
build_desired_state_keeps_none(p) ==
    [key \in {k \in DOMAIN p : k \notin exclude_keys} |-> p[key]]

\* lines 303-330
build_desired_state(p) ==
    [key \in {k \in DOMAIN p : k \notin exclude_keys /\ p[k] # NoneVal} |-> p[key]]

\* lines 344-349: the special operations the parameters ask for
special_ops == {"set_posix_primary", "revoke", "revoke_access_keys"}
active_special_ops(p) == {o \in special_ops : PyTruthy(Get(p, o))}

\* the remote client called in check mode as well
CallsRemote_in_check_mode(check) == TRUE
\* lines 402, 416 and 437: if not self.check_mode
CallsRemote(check) == ~check

\* BaseResource.lookup_field of the views resource
lookup_field == "path"

\* the desired state run diffs for an update, line 431-433, always keeping
\* the ephemeral fields
desired_for_update_with_ephemeral(des, ov, incl) == normalize_resource(Some(des), ov, TRUE, TRUE)

\* lines 431-433
desired_for_update(des, ov, incl) == normalize_resource(Some(des), ov, TRUE, incl)

\* lines 429-434: the patch run computes for an existing resource
run_patch(cur, des, ov, incl) ==
    compute_patch(normalize_resource(Some(cur), ov, TRUE, FALSE),
                  desired_for_update(des, ov, incl), ov)

\* a call that does not name the resource it is about
Call_without_id(method, id, payload) == [op |-> method, id |-> NoneVal, payload |-> payload]
\* a call run makes on the remote client
Call(method, id, payload) == [op |-> method, id |-> id, payload |-> payload]

(* The remote API *)

\* the orderings of a list
Perms(items) ==
    {p \in [1..Len(items) -> Range(items)] :
        \A x \in Range(items) :
            Cardinality({i \in 1..Len(items) : p[i] = x})
                = Cardinality({i \in 1..Len(items) : items[i] = x})}

\* what a read may return for a stored value: a set-like list in any order
RenderValues(key, v, ov) ==
    IF key \in OverridesGet(ov, "set_like_lists") /\ IsList(v)
    THEN {ListVal(p) : p \in Perms(Items(v))}
    ELSE {v}

RECURSIVE Render(_, _, _)
\* what a read may return for the stored fields `keys` of d: a boolean field
\* that is false may be left out
Render(keys, d, ov) ==
    IF keys = {} THEN {EmptyDict}
    ELSE LET key == CHOOSE k \in keys : TRUE
             rest == Render(keys \ {key}, d, ov)
         IN  (IF d[key] = FalseVal THEN rest ELSE {})
             \cup {Merge(r, [k \in {key} |-> v]) :
                      r \in rest, v \in RenderValues(key, d[key], ov)}

\* what the remote keeps of a payload: identifiers are its own, and an
\* ephemeral field is never returned by a read
Stored(payload, ov) ==
    [k \in {x \in DOMAIN payload :
               x \notin {"id", "guid"} /\ x \notin OverridesGet(ov, "ephemeral_fields")}
        |-> payload[k]]

\* the remote after create(payload)
Created(payload, ov) ==
    Some(Merge([id |-> IntVal("7"), guid |-> StrVal("g")], Stored(payload, ov)))

\* the remote after update(id, patch)
Updated(stored, p, ov) == Some(Merge(stored, Stored(p, ov)))

RunIdle ==
    /\ params = EmptyDict
    /\ check_mode = FALSE
    /\ include_ephemeral_in_updates = FALSE
    /\ remote = NoDict
    /\ changed = FALSE
    /\ calls = <<>>
    /\ log = <<>>
    /\ rpc = "idle"

-----------------------------------------------------------------------------
(* Inputs of the diff-engine scenarios *)

RECURSIVE SeqsUpTo(_, _)
\* the sequences over S of length at most n
SeqsUpTo(S, n) ==
    IF n = 0 THEN {<<>>}
    ELSE LET shorter == SeqsUpTo(S, n - 1)
         IN  shorter \cup {Append(s, x) : s \in {t \in shorter : Len(t) = n - 1}, x \in S}

ListsOver(S) == {ListVal(s) : s \in SeqsUpTo(S, MaxLen)}

\* the values a field can hold, by field
FieldValues(key, atoms) ==
    CASE key = "id" -> {IntVal("7")}
      [] key = "guid" -> {StrVal("g")}
      [] key = "path" -> {StrVal("/a")}
      [] key = "create_dir" -> {TrueVal}
      [] key = "protocols" -> {NoneVal} \cup ListsOver(atoms)
      [] key = "s3_versioning" -> {NoneVal, FalseVal, TrueVal}

RECURSIVE Dicts(_, _)
\* the dicts whose keys are among the given keys
Dicts(keys, atoms) ==
    IF keys = {} THEN {EmptyDict}
    ELSE LET key == CHOOSE k \in keys : TRUE
             rest == Dicts(keys \ {key}, atoms)
         IN  rest \cup {Merge(d, [k \in {key} |-> v]) :
                           d \in rest, v \in FieldValues(key, atoms)}

PatchKeys == {"protocols", "s3_versioning"}
PatchAtoms == {"a", "b", "{}"}

NormIdle ==
    /\ resource = NoDict
    /\ exclude_immutable = FALSE
    /\ include_ephemeral = FALSE
    /\ normalized = EmptyDict
    /\ renormalized = EmptyDict

PatchIdle ==
    /\ current = EmptyDict
    /\ desired = EmptyDict
    /\ patch = EmptyDict
    /\ applied = EmptyDict
    /\ repatch = EmptyDict
    /\ diff = EmptyDict
    /\ changes = FALSE

normVars == <<resource, exclude_immutable, include_ephemeral, normalized, renormalized>>
patchVars == <<current, desired, patch, applied, repatch, diff, changes>>

-----------------------------------------------------------------------------
(* Inputs of the waiter scenario *)

TaskIds == {IntVal("7"), StrVal("t-9")}

\* labels a remote reports, "completed" being a label outside TERMINAL_STATES
StateLabels == {STATE_PENDING, STATE_RUNNING, STATE_COMPLETED, STATE_SUCCESS,
                STATE_FAILED, STATE_ERROR, STATE_CANCELLED, "completed"}

TaskStatuses ==
    {TaskOf("state", l) : l \in StateLabels}
    \cup {TaskOf("status", l) : l \in {STATE_RUNNING, STATE_SUCCESS, STATE_FAILED}}
    \cup {EmptyTask,
          [state |-> STATE_RUNNING, status |-> STATE_COMPLETED],
          [state |-> STATE_FAILED, error |-> "disk full"],
          [state |-> STATE_FAILED, message |-> "aborted"],
          [state |-> STATE_ERROR, error |-> "disk full", message |-> "aborted"]}

Answers ==
    {AttributeErrorRaised, ExceptionRaised, EmptyAnswer}
    \cup {ListAnswer(t) : t \in TaskStatuses}
    \cup {DictAnswer(t) : t \in TaskStatuses}

WaitIdle ==
    /\ task_id = <<>>
    /\ target_state = ""
    /\ timeout = 0
    /\ poll_interval = 0
    /\ now = 0
    /\ start_time = 0
    /\ last_state = NoState
    /\ task = EmptyTask
    /\ polled = <<>>
    /\ queries = 0
    /\ api_calls = 0
    /\ result = EmptyTask
    /\ error = NoError
    /\ wpc = "idle"

DiffIdle == NormIdle /\ PatchIdle /\ overrides = NoneOverrides /\ dpc = "idle"

-----------------------------------------------------------------------------
(* Inputs of the operation scenarios *)

\* the responses an operation is given in the operation scenario
OpResponses ==
    {EmptyDict,
     [id |-> IntVal("3")],
     [id |-> IntVal("3"), type |-> StrVal("view")],
     [task_id |-> IntVal("7")],
     [task_id |-> StrVal("t-9"), id |-> IntVal("3")],
     [task_id |-> IntVal("0")],
     [task_id |-> StrVal("")],
     [task_id |-> NoneVal],
     [async_task |-> NoneVal],
     [id |-> IntVal("3"), type |-> StrVal("async_task")],
     [id |-> IntVal("0"), type |-> StrVal("async_task")]}
    \cup {Merge([async_task |-> DictVal], n) :
             n \in {[k \in {"async_task.id"} |-> v] : v \in {IntVal("9"), IntVal("0")}}
                \cup {[k \in {"async_task.task_id"} |-> v] : v \in {StrVal("t-9")}}
                \cup {[k \in {"async_task.id", "async_task.task_id"} |->
                          IF k = "async_task.id" THEN IntVal("0") ELSE StrVal("t-9")]}}

\* what the API answers to post, patch and delete
OpAnswers(method) ==
    {ApiRaises} \cup {DictResult(r) : r \in OpResponses}
    \cup (IF method = "delete" THEN {NoneResult} ELSE {})

\* the resources a get finds
Found == {[id |-> IntVal("1"), name |-> StrVal("x")], [id |-> IntVal("2"), name |-> StrVal("x")]}

\* what the API answers to get
GetAnswers ==
    {ApiRaises, NoneResult, DictResult(EmptyDict), ListResult(<<>>)}
    \cup {DictResult(r) : r \in Found}
    \cup {ListResult(<<r>>) : r \in Found}
    \cup {ListResult(<<r, q>>) : r \in Found, q \in Found}

\* the answers of the task-status endpoints while an operation waits
OpTaskAnswers ==
    {ExceptionRaised, EmptyAnswer,
     ListAnswer(TaskOf("state", STATE_RUNNING)),
     DictAnswer(TaskOf("state", STATE_COMPLETED)),
     ListAnswer([state |-> STATE_FAILED, error |-> "disk full"])}

WaitTimeouts == {0, MaxTimeout, DefaultPollInterval + 1}

\* the states wait_for_resource_state is asked to wait for
TargetStates == {"ACTIVE", "DELETED", "ERROR"}

\* the resources a poll of wait_for_resource_state reads
ResourceStatuses ==
    {TaskOf("state", l) : l \in {"ACTIVE", "CREATING", "ERROR", "FAILED", "DELETED", "error"}}
    \cup {TaskOf("status", l) : l \in {"ACTIVE", "FAILED"}}
    \cup {EmptyTask,
          [state |-> "CREATING", status |-> "ACTIVE"],
          [state |-> "ERROR", error |-> "disk full"],
          [state |-> "DELETED", message |-> "aborted"]}

ResourceAnswers ==
    {ExceptionRaised, NoneAnswer, EmptyAnswer}
    \cup {ListAnswer(t) : t \in ResourceStatuses}
    \cup {DictAnswer(t) : t \in ResourceStatuses}

\* the three places of a task reference in a response, each in its variants
TopLevelRefs ==
    {EmptyDict} \cup {[task_id |-> v] : v \in {IntVal("7"), StrVal("t-9"), IntVal("0"), NoneVal}}

NestedRefs ==
    {EmptyDict, [async_task |-> NoneVal], [async_task |-> DictVal]}
    \cup {Merge([async_task |-> DictVal], n) :
             n \in {[k \in {"async_task.id"} |-> v] : v \in {IntVal("9"), IntVal("0"), NoneVal}}
                \cup {[k \in {"async_task.task_id"} |-> v] : v \in {StrVal("t-9"), StrVal("")}}
                \cup {[k \in {"async_task.id", "async_task.task_id"} |->
                          IF k = "async_task.id" THEN v ELSE StrVal("t-9")] :
                             v \in {IntVal("9"), IntVal("0"), NoneVal}}}

RootRefs ==
    {EmptyDict,
     [id |-> IntVal("3"), type |-> StrVal("async_task")],
     [id |-> IntVal("3"), type |-> StrVal("view")],
     [id |-> IntVal("3")],
     [id |-> IntVal("0"), type |-> StrVal("async_task")],
     [type |-> StrVal("async_task")]}

Responses == {Merge(Merge(t, n), r) : t \in TopLevelRefs, n \in NestedRefs, r \in RootRefs}

OpIdle ==
    /\ response = Nothing
    /\ extracted = [waiter |-> NotExtracted, manager |-> NotExtracted, resource |-> NotExtracted]
    /\ layer = "none"
    /\ op = "none"
    /\ is_async = FALSE
    /\ wait = FALSE
    /\ wait_timeout = 0
    /\ api_log = <<>>
    /\ returned = Nothing
    /\ raised = "none"
    /\ opc = "idle"

-----------------------------------------------------------------------------
(* Scenario: normalize a resource, then normalize the result again *)

InitNorm ==
    /\ resource \in {NoDict} \cup {Some(d) : d \in Dicts(Keys, Atoms)}
    /\ overrides \in Classifications
    /\ exclude_immutable \in BOOLEAN
    /\ include_ephemeral \in BOOLEAN
    /\ normalized = EmptyDict
    /\ renormalized = EmptyDict
    /\ dpc = "start"
    /\ PatchIdle
    /\ WaitIdle
    /\ RunIdle
    /\ OpIdle

Normalize ==
    /\ dpc = "start"
    /\ normalized' = normalize_resource(resource, overrides, exclude_immutable,
                                        include_ephemeral)
    /\ dpc' = "normalized"
    /\ UNCHANGED <<resource, exclude_immutable, include_ephemeral, renormalized,
                   overrides, patchVars, waitVars, runVars, opVars>>

NormalizeAgain ==
    /\ dpc = "normalized"
    /\ renormalized' = normalize_resource(Some(normalized), overrides,
                                          exclude_immutable, include_ephemeral)
    /\ dpc' = "renormalized"
    /\ UNCHANGED <<resource, exclude_immutable, include_ephemeral, normalized,
                   overrides, patchVars, waitVars, runVars, opVars>>

NextNorm == Normalize \/ NormalizeAgain

SpecNorm == InitNorm /\ [][NextNorm]_vars

-----------------------------------------------------------------------------
(* Scenario: compute a patch, overwrite current with it and diff again *)

InitPatch ==
    /\ current \in Dicts(PatchKeys, PatchAtoms)
    /\ desired \in Dicts(PatchKeys, PatchAtoms)
    /\ overrides \in {ViewsOverrides, DefaultOverrides, NoneOverrides}
    /\ patch = EmptyDict
    /\ applied = EmptyDict
    /\ repatch = EmptyDict
    /\ diff = EmptyDict
    /\ changes = FALSE
    /\ dpc = "start"
    /\ NormIdle
    /\ WaitIdle
    /\ RunIdle
    /\ OpIdle

ComputePatch ==
    /\ dpc = "start"
    /\ patch' = compute_patch(current, desired, overrides)
    /\ dpc' = "patched"
    /\ UNCHANGED <<current, desired, overrides, applied, repatch, diff, changes, normVars,
                   waitVars, runVars, opVars>>

\* the caller overwrites current with the patch (resource.py line 443 does so
\* for its check-mode result) and diffs again
ApplyAndRediff ==
    /\ dpc = "patched"
    /\ applied' = Merge(current, patch)
    /\ repatch' = compute_patch(Merge(current, patch), desired, overrides)
    /\ dpc' = "rediffed"
    /\ UNCHANGED <<current, desired, overrides, patch, diff, changes, normVars, waitVars,
                   runVars, opVars>>

ComputeDiff ==
    /\ dpc = "start"
    /\ overrides # NoneOverrides
    /\ diff' = compute_diff(current, desired, overrides)
    /\ dpc' = "diffed"
    /\ UNCHANGED <<current, desired, overrides, patch, applied, repatch, changes, normVars,
                   waitVars, runVars, opVars>>

\* the caller asks has_changes about the mappings it has a patch for
HasChanges ==
    /\ dpc = "patched"
    /\ changes' = has_changes(current, desired, overrides)
    /\ dpc' = "asked"
    /\ UNCHANGED <<current, desired, overrides, patch, applied, repatch, diff, normVars,
                   waitVars, runVars, opVars>>

NextPatch == ComputePatch \/ ApplyAndRediff \/ ComputeDiff \/ HasChanges

SpecPatch == InitPatch /\ [][NextPatch]_vars


-----------------------------------------------------------------------------
(* Scenario: the diff engine on set-like lists of any shape *)

\* a string, an integer and a dict: elements that cannot all be sorted together,
\* the dict not hashable either
ShapeAtoms == {"a", "1", "{}"}

ShapeDicts == {[k \in {"protocols"} |-> v] : v \in ListsOver(ShapeAtoms)}

InitShape ==
    /\ current \in ShapeDicts
    /\ desired \in ShapeDicts
    /\ resource = Some(desired)
    /\ overrides \in {ViewsOverrides, OverlapOverrides}
    /\ exclude_immutable = FALSE
    /\ include_ephemeral = FALSE
    /\ normalized = EmptyDict
    /\ renormalized = EmptyDict
    /\ patch = EmptyDict
    /\ applied = EmptyDict
    /\ repatch = EmptyDict
    /\ diff = EmptyDict
    /\ changes = FALSE
    /\ dpc = "start"
    /\ WaitIdle
    /\ RunIdle
    /\ OpIdle

NextShape == Normalize \/ ComputePatch \/ ComputeDiff

SpecShape == InitShape /\ [][NextShape]_vars

-----------------------------------------------------------------------------
(* Scenario: one call of wait_for_task *)

InitWait ==
    /\ task_id \in TaskIds
    /\ target_state = ""
    /\ timeout \in 0..MaxTimeout
    /\ poll_interval \in 1..MaxPollInterval
    /\ now = 0
    /\ start_time = 0
    /\ last_state = NoState
    /\ task = EmptyTask
    /\ polled = <<>>
    /\ queries = 0
    /\ api_calls = 0
    /\ result = EmptyTask
    /\ error = NoError
    /\ wpc = "called"
    /\ DiffIdle
    /\ RunIdle
    /\ OpIdle

\* lines 61-62
WaitStart ==
    /\ wpc = "called"
    /\ start_time' = now
    /\ last_state' = NoState
    /\ wpc' = "loop"
    /\ UNCHANGED <<task_id, target_state, timeout, poll_interval, now, task, polled, queries,
                   api_calls, result, error, diffVars, runVars, opVars>>

\* lines 65-68: the deadline check that opens every iteration
CheckDeadline ==
    /\ wpc = "loop"
    /\ IF DeadlineReached(now - start_time, timeout)
       THEN /\ error' = TimeoutError(task_id, last_state)
            /\ wpc' = "raised"
       ELSE /\ error' = error
            /\ wpc' = "query"
    /\ UNCHANGED <<task_id, target_state, timeout, poll_interval, now, start_time, last_state, task,
                   polled, queries, api_calls, result, diffVars, runVars, opVars>>

\* the answers a status query may get, fewer of them while an operation waits
QueryAnswers == IF opc = "idle" THEN Answers ELSE OpTaskAnswers

\* lines 70-79: one status query and the classification of its answer
QueryTask ==
    /\ wpc = "query"
    /\ \E vtasks \in QueryAnswers, took \in 0..MaxQueryTime :
       \E async_tasks \in IF vtasks.kind \in {"empty", "dict"} /\ ~AnswerTruthy(vtasks)
                          THEN QueryAnswers ELSE {NotCalled} :
          LET got == get_task(task_id, vtasks, async_tasks)
              state == TaskState(got.task)
          IN  /\ queries' = queries + 1
              /\ api_calls' = api_calls + ApiCalls(vtasks, async_tasks)
              /\ now' = now + took
              /\ IF ~got.ok
                 THEN /\ error' = got.error
                      /\ wpc' = "raised"
                      /\ UNCHANGED <<task, polled, last_state, result>>
                 ELSE /\ task' = got.task
                      /\ polled' = Append(polled, state)
                      /\ last_state' = state
                      /\ IF state \in SUCCESS_STATES
                         THEN /\ result' = got.task
                              /\ wpc' = "returned"
                              /\ error' = error
                         ELSE IF state \in TERMINAL_STATES
                         THEN /\ error' = TaskFailedError(task_id, state, TaskErrorText(got.task))
                              /\ wpc' = "raised"
                              /\ result' = result
                         ELSE /\ wpc' = "sleep"
                              /\ UNCHANGED <<result, error>>
    /\ UNCHANGED <<task_id, target_state, timeout, poll_interval, start_time, diffVars, runVars, opVars>>

\* line 82: time.sleep(self.poll_interval)
Sleep ==
    /\ wpc = "sleep"
    /\ now' = now + poll_interval
    /\ wpc' = "loop"
    /\ UNCHANGED <<task_id, target_state, timeout, poll_interval, start_time, last_state, task,
                   polled, queries, api_calls, result, error, diffVars, runVars, opVars>>

NextWait == WaitStart \/ CheckDeadline \/ QueryTask \/ Sleep

SpecWait == InitWait /\ [][NextWait]_vars

-----------------------------------------------------------------------------
(* Scenario: BaseResource.run, run twice with the same parameters *)

RunLists == {<<"a", "b">>, <<"b", "a", "a">>, <<"a", "{}">>}

\* module.params: state, id and the lookup field are always given a value
\* (None when the task leaves them out)
ParamSets ==
    {Merge(base, fields) :
        base \in {[state |-> s, id |-> i, path |-> pth, s3_versioning |-> b] :
                     s \in {StrVal("present"), StrVal("absent")},
                     i \in {NoneVal, IntVal("7")},
                     pth \in {NoneVal, StrVal("/a")},
                     b \in {NoneVal, FalseVal, TrueVal}},
        fields \in {Merge(Merge(Merge(g, c), l), o) :
                     o \in {EmptyDict, [revoke |-> TrueVal]},
                     g \in {EmptyDict, [guid |-> StrVal("g")]},
                     c \in {EmptyDict, [create_dir |-> TrueVal]},
                     l \in {EmptyDict} \cup {[protocols |-> ListVal(x)] : x \in RunLists}}}

\* the resource the remote holds when run starts, if any
RemoteResources ==
    {NoDict} \cup
    {Some([id |-> IntVal("7"), guid |-> StrVal("g"), path |-> StrVal("/a"),
           protocols |-> ListVal(l), s3_versioning |-> b]) :
        l \in {<<"a", "b">>, <<"a">>, <<"{}", "a">>}, b \in {FalseVal, TrueVal}}

InitRun ==
    /\ params \in ParamSets
    /\ check_mode \in BOOLEAN
    /\ include_ephemeral_in_updates \in BOOLEAN
    /\ overrides \in {ViewsOverrides, DefaultOverrides}
    /\ remote \in RemoteResources
    /\ changed = FALSE
    /\ calls = <<>>
    /\ log = <<>>
    /\ rpc = "start"
    /\ NormIdle /\ PatchIdle /\ dpc = "idle"
    /\ WaitIdle
    /\ OpIdle

Finished(outcome) ==
    [outcome |-> outcome, changed |-> changed', patch |-> patch', calls |-> calls']

\* lines 344-364: a special operation is asked for; check mode reports it as
\* a change, and without check mode run fails, BaseResource supporting none
RunSpecialOps ==
    /\ rpc = "start"
    /\ active_special_ops(params) # {}
    /\ IF check_mode
       THEN /\ changed' = TRUE
            /\ rpc' = "exited"
       ELSE /\ changed' = FALSE
            /\ rpc' = "failed"
    /\ calls' = <<>>
    /\ patch' = EmptyDict
    /\ desired' = EmptyDict
    /\ current' = EmptyDict
    /\ log' = Append(log, Finished(rpc'))
    /\ UNCHANGED <<params, check_mode, include_ephemeral_in_updates, remote, overrides,
                   normVars, applied, repatch, diff, changes, dpc, waitVars, opVars>>

\* lines 366-393: validate the parameters and get the current resource; None
\* (here the empty dict, which run treats alike) when there is none
RunGet ==
    /\ rpc = "start"
    /\ active_special_ops(params) = {}
    /\ LET lookup_value == Get(params, lookup_field)
           resource_id == Get(params, "id")
       IN  IF /\ lookup_value = NoneVal /\ resource_id = NoneVal
              /\ Get(params, "state") = StrVal("present")
           THEN \* fail_json, line 372
                /\ rpc' = "failed"
                /\ current' = EmptyDict
           ELSE IF lookup_value = NoneVal /\ resource_id = NoneVal
           THEN /\ rpc' = "fetched"
                /\ current' = EmptyDict
           ELSE \/ \* the API call raises: get raises VastAPIError, run fails (line 393)
                   /\ rpc' = "failed"
                   /\ current' = EmptyDict
                \/ /\ rpc' = "fetched"
                   /\ IF remote.some
                      THEN current' \in Render(DOMAIN remote.d, remote.d, overrides)
                      ELSE current' = EmptyDict
    /\ changed' = FALSE
    /\ calls' = <<>>
    /\ patch' = EmptyDict
    /\ desired' = EmptyDict
    /\ log' = IF rpc' = "failed" THEN Append(log, Finished("failed")) ELSE log
    /\ UNCHANGED <<params, check_mode, include_ephemeral_in_updates, remote, overrides,
                   normVars, applied, repatch, diff, changes, dpc, waitVars, opVars>>

\* lines 400-410: state == "absent"
RunAbsent ==
    /\ rpc = "fetched"
    /\ Get(params, "state") = StrVal("absent")
    /\ desired' = desired
    /\ patch' = patch
    /\ IF Truthy(current)
       THEN IF CallsRemote(check_mode)
            THEN \/ /\ calls' = Append(calls, Call("delete", current["id"], EmptyDict))
                    /\ remote' = NoDict
                    /\ changed' = TRUE
                    /\ rpc' = "exited"
                 \/ \* delete raises VastAPIError: fail_json, line 406
                    /\ calls' = Append(calls, Call("delete", current["id"], EmptyDict))
                    /\ remote' = remote
                    /\ changed' = changed
                    /\ rpc' = "failed"
            ELSE /\ changed' = TRUE
                 /\ rpc' = "exited"
                 /\ UNCHANGED <<calls, remote>>
       ELSE /\ rpc' = "exited"
            /\ UNCHANGED <<calls, remote, changed>>
    /\ log' = Append(log, Finished(rpc'))
    /\ UNCHANGED <<params, check_mode, include_ephemeral_in_updates, current, overrides,
                   normVars, applied, repatch, diff, changes, dpc, waitVars, opVars>>

\* lines 412-426: state == "present" and no current resource
RunCreate ==
    /\ rpc = "fetched"
    /\ Get(params, "state") # StrVal("absent")
    /\ ~Truthy(current)
    /\ desired' = build_desired_state(params)
    /\ patch' = patch
    /\ IF CallsRemote(check_mode)
       THEN \/ /\ calls' = Append(calls, Call("create", NoneVal, desired'))
               /\ remote' = Created(desired', overrides)
               /\ changed' = TRUE
               /\ rpc' = "exited"
            \/ \* create raises VastAPIError: fail_json, line 421
               /\ calls' = Append(calls, Call("create", NoneVal, desired'))
               /\ remote' = remote
               /\ changed' = changed
               /\ rpc' = "failed"
       ELSE /\ changed' = TRUE
            /\ rpc' = "exited"
            /\ UNCHANGED <<calls, remote>>
    /\ log' = Append(log, Finished(rpc'))
    /\ UNCHANGED <<params, check_mode, include_ephemeral_in_updates, current, overrides,
                   normVars, applied, repatch, diff, changes, dpc, waitVars, opVars>>

\* lines 427-448: state == "present" and a current resource
RunUpdate ==
    /\ rpc = "fetched"
    /\ Get(params, "state") # StrVal("absent")
    /\ Truthy(current)
    /\ desired' = build_desired_state(params)
    /\ patch' = run_patch(current, desired', overrides, include_ephemeral_in_updates)
    /\ IF Truthy(patch')
       THEN IF CallsRemote(check_mode)
            THEN \/ /\ calls' = Append(calls, Call("update", current["id"], patch'))
                    /\ remote' = Updated(remote.d, patch', overrides)
                    /\ changed' = TRUE
                    /\ rpc' = "exited"
                 \/ \* update raises VastAPIError: fail_json, line 441
                    /\ calls' = Append(calls, Call("update", current["id"], patch'))
                    /\ remote' = remote
                    /\ changed' = changed
                    /\ rpc' = "failed"
            ELSE /\ changed' = TRUE
                 /\ rpc' = "exited"
                 /\ UNCHANGED <<calls, remote>>
       ELSE /\ rpc' = "exited"
            /\ UNCHANGED <<calls, remote, changed>>
    /\ log' = Append(log, Finished(rpc'))
    /\ UNCHANGED <<params, check_mode, include_ephemeral_in_updates, current, overrides,
                   normVars, applied, repatch, diff, changes, dpc, waitVars, opVars>>

\* the same task is run a second time
RunAgain ==
    /\ rpc = "exited"
    /\ Len(log) = 1
    /\ rpc' = "start"
    /\ UNCHANGED <<params, check_mode, include_ephemeral_in_updates, remote, changed,
                   calls, log, diffVars, waitVars, opVars>>

NextRun == RunSpecialOps \/ RunGet \/ RunAbsent \/ RunCreate \/ RunUpdate \/ RunAgain

SpecRun == InitRun /\ [][NextRun]_vars

-----------------------------------------------------------------------------
(* Scenario: the three task-id extractors, given one response *)

InitExtract ==
    /\ response \in {DictResult(r) : r \in Responses}
    /\ extracted = [waiter |-> NotExtracted, manager |-> NotExtracted, resource |-> NotExtracted]
    /\ layer = "none"
    /\ op = "none"
    /\ is_async = FALSE
    /\ wait = FALSE
    /\ wait_timeout = 0
    /\ api_log = <<>>
    /\ returned = Nothing
    /\ raised = "none"
    /\ opc = "extract"
    /\ DiffIdle
    /\ WaitIdle
    /\ RunIdle

\* waiter.extract_task_id(response)
ExtractTaskId ==
    /\ opc = "extract"
    /\ extracted.waiter = NotExtracted
    /\ extracted' = [extracted EXCEPT !.waiter = extract_task_id(response.d)]
    /\ UNCHANGED <<response, layer, op, is_async, wait, wait_timeout, api_log, returned,
                   raised, opc, diffVars, waitVars, runVars>>

\* ResourceManager._extract_task_id(response)
ManagerExtract ==
    /\ opc = "extract"
    /\ extracted.manager = NotExtracted
    /\ extracted' = [extracted EXCEPT !.manager = ManagerExtractTaskId(response.d)]
    /\ UNCHANGED <<response, layer, op, is_async, wait, wait_timeout, api_log, returned,
                   raised, opc, diffVars, waitVars, runVars>>

\* BaseResource._extract_task_id(response)
ResourceExtract ==
    /\ opc = "extract"
    /\ extracted.resource = NotExtracted
    /\ extracted' = [extracted EXCEPT !.resource = ResourceExtractTaskId(response.d)]
    /\ UNCHANGED <<response, layer, op, is_async, wait, wait_timeout, api_log, returned,
                   raised, opc, diffVars, waitVars, runVars>>

NextExtract == ExtractTaskId \/ ManagerExtract \/ ResourceExtract

SpecExtract == InitExtract /\ [][NextExtract]_vars

-----------------------------------------------------------------------------
(* Scenario: one get, create, update or delete of a ResourceManager, or one
   create, update or delete of a BaseResource, waiting for its task *)

InitOp ==
    /\ layer \in {"ResourceManager", "BaseResource"}
    /\ op \in IF layer = "ResourceManager" THEN {"get", "create", "update", "delete"}
              ELSE {"create", "update", "delete"}
    /\ is_async \in BOOLEAN
    /\ wait \in BOOLEAN
    /\ wait_timeout \in WaitTimeouts
    /\ response = Nothing
    /\ extracted = [waiter |-> NotExtracted, manager |-> NotExtracted, resource |-> NotExtracted]
    /\ api_log = <<>>
    /\ returned = Nothing
    /\ raised = "none"
    /\ opc = "called"
    /\ DiffIdle
    /\ WaitIdle
    /\ RunIdle

\* managers/base.py lines 52-72: ResourceManager.get
ManagerGet ==
    /\ opc = "called"
    /\ op = "get"
    /\ \E results \in GetAnswers :
          /\ response' = results
          /\ api_log' = Append(api_log, ApiCall("get", manager_lookup_field))
          /\ returned' = manager_get(results).returned
          /\ raised' = manager_get(results).raised
          /\ opc' = IF manager_get(results).raised = "none" THEN "returned" ELSE "raised"
    /\ UNCHANGED <<extracted, layer, op, is_async, wait, wait_timeout, diffVars, waitVars,
                   runVars>>

\* managers/base.py lines 74-146 and 162-180, resource.py lines 220-301 and
\* 461-476: the API call of create, update or delete, and what follows it up
\* to the call of wait_for_task
OpCall ==
    /\ opc = "called"
    /\ op \in {"create", "update", "delete"}
    /\ \E answer \in OpAnswers(op) :
          LET res == OpResult(op, answer)
              e == IF layer = "ResourceManager" THEN ManagerExtractTaskId(res.d)
                   ELSE ResourceExtractTaskId(res.d)
              seen == IF layer = "ResourceManager" THEN [extracted EXCEPT !.manager = e]
                      ELSE [extracted EXCEPT !.resource = e]
          IN  /\ response' = answer
              /\ api_log' = Append(api_log, ApiCall(Method(op), ""))
              /\ IF answer = ApiRaises
                 THEN /\ raised' = "VastAPIError"
                      /\ opc' = "raised"
                      /\ UNCHANGED <<returned, extracted, waitVars>>
                 ELSE IF ~MustWait(is_async, wait)
                 THEN /\ returned' = res
                      /\ opc' = "returned"
                      /\ UNCHANGED <<raised, extracted, waitVars>>
                 ELSE IF e.raised # "none"
                 THEN /\ raised' = e.raised
                      /\ opc' = "raised"
                      /\ extracted' = seen
                      /\ UNCHANGED <<returned, waitVars>>
                 ELSE IF PyTruthy(e.value)
                 THEN \* TaskWaiter(client, timeout=wait_timeout).wait_for_task(task_id)
                      /\ task_id' = e.value
                      /\ timeout' = wait_timeout
                      /\ poll_interval' = DefaultPollInterval
                      /\ wpc' = "called"
                      /\ opc' = "waiting"
                      /\ extracted' = seen
                      /\ UNCHANGED <<returned, raised, target_state, now, start_time,
                                     last_state, task, polled, queries, api_calls, result,
                                     error>>
                 ELSE IF layer = "ResourceManager"
                 THEN /\ returned' = res
                      /\ opc' = "returned"
                      /\ extracted' = seen
                      /\ UNCHANGED <<raised, waitVars>>
                 ELSE /\ opc' = "waited"
                      /\ extracted' = seen
                      /\ UNCHANGED <<returned, raised, waitVars>>
    /\ UNCHANGED <<layer, op, is_async, wait, wait_timeout, diffVars, runVars>>

\* what follows wait_for_task: managers/base.py lines 96, 121, 146;
\* resource.py lines 241-247, 271-276, 301 and 475-476
OpAfterWait ==
    /\ \/ opc = "waiting" /\ wpc \in {"returned", "raised"}
       \/ opc = "waited"
    /\ LET res == OpResult(op, response)
       IN  IF opc = "waiting" /\ wpc = "raised"
           THEN /\ raised' = IF layer = "ResourceManager" THEN "VastAPIError" ELSE "fail_json"
                /\ opc' = "raised"
                /\ UNCHANGED <<returned, api_log>>
           ELSE IF layer = "BaseResource" /\ Refreshes(op, res)
           THEN \E found \in GetAnswers :
                   LET refreshed == resource_get_by_id(found)
                   IN  /\ api_log' = Append(api_log, ApiCall("get", "id"))
                       /\ raised' = refreshed.raised
                       /\ opc' = IF refreshed.raised = "none" THEN "returned" ELSE "raised"
                       /\ returned' = IF refreshed.raised # "none" THEN returned
                                      ELSE IF ResultTruthy(refreshed.returned)
                                           THEN refreshed.returned
                                           ELSE res
           ELSE /\ returned' = res
                /\ opc' = "returned"
                /\ UNCHANGED <<raised, api_log>>
    /\ UNCHANGED <<response, extracted, layer, op, is_async, wait, wait_timeout, diffVars,
                   waitVars, runVars>>

NextOp == ManagerGet \/ OpCall \/ OpAfterWait \/ WaitStart \/ CheckDeadline \/ QueryTask \/ Sleep

SpecOp == InitOp /\ [][NextOp]_vars

-----------------------------------------------------------------------------
(* Scenario: one call of wait_for_condition or of wait_for_resource_state *)

InitPoll ==
    /\ op \in {"wait_for_condition", "wait_for_resource_state"}
    /\ target_state \in IF op = "wait_for_resource_state" THEN TargetStates ELSE {""}
    /\ timeout \in 0..MaxTimeout
    /\ poll_interval \in 1..MaxPollInterval
    /\ task_id = <<>>
    /\ now = 0
    /\ start_time = 0
    /\ last_state = NoState
    /\ task = EmptyTask
    /\ polled = <<>>
    /\ queries = 0
    /\ api_calls = 0
    /\ result = EmptyTask
    /\ error = NoError
    /\ wpc = "called"
    /\ response = Nothing
    /\ extracted = [waiter |-> NotExtracted, manager |-> NotExtracted, resource |-> NotExtracted]
    /\ layer = "none"
    /\ is_async = FALSE
    /\ wait = FALSE
    /\ wait_timeout = 0
    /\ api_log = <<>>
    /\ returned = Nothing
    /\ raised = "none"
    /\ opc = "poll"
    /\ DiffIdle
    /\ RunIdle

\* wait_for_condition, line 125
CondStart ==
    /\ op = "wait_for_condition"
    /\ wpc = "called"
    /\ start_time' = now
    /\ wpc' = "loop"
    /\ UNCHANGED <<task_id, target_state, timeout, poll_interval, now, last_state, task,
                   polled, queries, api_calls, result, error, diffVars, runVars, opVars>>

\* wait_for_condition, lines 128-131
CondDeadline ==
    /\ op = "wait_for_condition"
    /\ wpc = "loop"
    /\ IF DeadlineReached(now - start_time, timeout)
       THEN /\ error' = ConditionTimeoutError
            /\ wpc' = "raised"
       ELSE /\ error' = error
            /\ wpc' = "check"
    /\ UNCHANGED <<task_id, target_state, timeout, poll_interval, now, start_time, last_state,
                   task, polled, queries, api_calls, result, diffVars, runVars, opVars>>

\* wait_for_condition, lines 133-138: one call of check_fn
CondCheck ==
    /\ op = "wait_for_condition"
    /\ wpc = "check"
    /\ \E outcome \in CheckOutcomes, took \in 0..MaxQueryTime :
          /\ queries' = queries + 1
          /\ polled' = Append(polled, outcome)
          /\ now' = now + took
          /\ wpc' = CASE AfterCheck(outcome) = "return" -> "returned"
                      [] AfterCheck(outcome) = "sleep" -> "sleep"
                      [] AfterCheck(outcome) = "raise" -> "raised"
          /\ error' = IF AfterCheck(outcome) = "raise"
                      THEN [kind |-> "exception", id |-> <<>>, state |-> "", text |-> ""]
                      ELSE error
    /\ UNCHANGED <<task_id, target_state, timeout, poll_interval, start_time, last_state,
                   task, api_calls, result, diffVars, runVars, opVars>>

\* wait_for_condition, line 140
CondSleep ==
    /\ op = "wait_for_condition"
    /\ wpc = "sleep"
    /\ now' = now + poll_interval
    /\ wpc' = "loop"
    /\ UNCHANGED <<task_id, target_state, timeout, poll_interval, start_time, last_state,
                   task, polled, queries, api_calls, result, error, diffVars, runVars, opVars>>

\* wait_for_resource_state, line 196
StateStart ==
    /\ op = "wait_for_resource_state"
    /\ wpc = "called"
    /\ start_time' = now
    /\ wpc' = "loop"
    /\ UNCHANGED <<task_id, target_state, timeout, poll_interval, now, last_state, task,
                   polled, queries, api_calls, result, error, diffVars, runVars, opVars>>

\* wait_for_resource_state, lines 199-204
StateDeadline ==
    /\ op = "wait_for_resource_state"
    /\ wpc = "loop"
    /\ IF DeadlineReached(now - start_time, timeout)
       THEN /\ error' = ResourceTimeoutError(target_state)
            /\ wpc' = "raised"
       ELSE /\ error' = error
            /\ wpc' = "query"
    /\ UNCHANGED <<task_id, target_state, timeout, poll_interval, now, start_time, last_state,
                   task, polled, queries, api_calls, result, diffVars, runVars, opVars>>

\* wait_for_resource_state, lines 206-226: one read of the resource
StatePoll ==
    /\ op = "wait_for_resource_state"
    /\ wpc = "query"
    /\ \E answer \in ResourceAnswers, took \in 0..MaxQueryTime :
          LET read == ResourceRead(answer)
              state == ResourceState(read.resource)
              then == IF read.ok THEN AfterPoll(state, target_state) ELSE "sleep"
          IN  /\ queries' = queries + 1
              /\ api_calls' = api_calls + 1
              /\ now' = now + took
              /\ polled' = Append(polled, IF read.ok THEN state ELSE "raises")
              /\ task' = IF read.ok THEN read.resource ELSE task
              /\ result' = IF then = "return" THEN read.resource ELSE result
              /\ error' = IF then = "raise"
                          THEN ResourceStateError(state, TaskErrorText(read.resource))
                          ELSE error
              /\ wpc' = CASE then = "return" -> "returned"
                          [] then = "raise" -> "raised"
                          [] then = "sleep" -> "sleep"
    /\ UNCHANGED <<task_id, target_state, timeout, poll_interval, start_time, last_state,
                   diffVars, runVars, opVars>>

\* wait_for_resource_state, line 228
StateSleep ==
    /\ op = "wait_for_resource_state"
    /\ wpc = "sleep"
    /\ now' = now + poll_interval
    /\ wpc' = "loop"
    /\ UNCHANGED <<task_id, target_state, timeout, poll_interval, start_time, last_state,
                   task, polled, queries, api_calls, result, error, diffVars, runVars, opVars>>

NextPoll ==
    \/ CondStart \/ CondDeadline \/ CondCheck \/ CondSleep
    \/ StateStart \/ StateDeadline \/ StatePoll \/ StateSleep

SpecPoll == InitPoll /\ [][NextPoll]_vars

-----------------------------------------------------------------------------
(* Scenario: one call of any of the three waits *)

InitWaiters == InitWait \/ InitPoll

\* the steps of wait_for_task, when it is the wait that was called
TaskStart == opc = "idle" /\ WaitStart
TaskDeadline == opc = "idle" /\ CheckDeadline
TaskQuery == opc = "idle" /\ QueryTask
TaskSleep == opc = "idle" /\ Sleep

NextWaiters ==
    \/ TaskStart \/ TaskDeadline \/ TaskQuery \/ TaskSleep
    \/ CondStart \/ CondDeadline \/ CondCheck \/ CondSleep
    \/ StateStart \/ StateDeadline \/ StatePoll \/ StateSleep

SpecWaiters == InitWaiters /\ [][NextWaiters]_vars

\* wait_for_task scheduled fairly: the calling thread keeps running
SpecWaitFair == SpecWait /\ WF_vars(NextWait)

-----------------------------------------------------------------------------
(* Properties of the diff engine *)

\* the set-like fields of the classification in use
SetLike == IF overrides = NoneOverrides THEN {} ELSE OverridesGet(overrides, "set_like_lists")

HashableList(v) == IsList(v) /\ \A x \in Range(Items(v)) : Hashable(x)

\* C2: overwriting current with the patch and diffing again against the same
\* desired mapping yields the empty patch.
PatchFixedPoint == dpc = "rediffed" => repatch = EmptyDict

PatchFixedPointWitness ==
    /\ dpc = "rediffed"
    /\ DOMAIN patch = PatchKeys
    /\ applied # current
    /\ repatch = EmptyDict

\* a current value differs from a desired one: an absent (null) current value
\* counts as equal to a desired false, set-like lists of hashable elements
\* differ when their element sets do, anything else when it is not equal
Differs(current_val, desired_val, set_like) ==
    /\ ~(current_val = NoneVal /\ desired_val = FalseVal)
    /\ IF set_like /\ HashableList(current_val) /\ HashableList(desired_val)
       THEN Range(Items(current_val)) # Range(Items(desired_val))
       ELSE current_val # desired_val

ExactPatch(p, cur, des) ==
    /\ DOMAIN p = {k \in DOMAIN des :
                      des[k] # NoneVal /\ Differs(Get(cur, k), des[k], k \in SetLike)}
    /\ \A k \in DOMAIN p : p[k] = des[k]

\* C3 (amended): the patch holds exactly the keys of desired with a non-null
\* value that differs from current's value for the key, an absent (null)
\* current value counting as equal to a desired false; each maps to the desired
\* value.  The same holds of compute_diff on the normalized mappings, and the
\* patch is empty when every desired field equals the current field.
PatchExact ==
    /\ dpc = "patched" =>
          /\ ExactPatch(patch, current, desired)
          /\ (\A k \in DOMAIN desired : k \in DOMAIN current /\ current[k] = desired[k])
                => patch = EmptyDict
    /\ dpc = "diffed" =>
          ExactPatch(diff, normalize_resource(Some(current), overrides, FALSE, FALSE),
                     normalize_resource(Some(desired), overrides, FALSE, FALSE))

PatchExactWitness ==
    /\ dpc = "patched"
    /\ "s3_versioning" \in DOMAIN desired /\ desired["s3_versioning"] = FalseVal
    /\ "s3_versioning" \notin DOMAIN current
    /\ "protocols" \in DOMAIN patch /\ patch["protocols"] = ListVal(<<"b", "a">>)
    /\ DOMAIN patch = {"protocols"}

\* normalize_value leaves both mappings as they are
InputsNormalized ==
    /\ \A k \in DOMAIN current : normalize_value(current[k], k \in SetLike) = current[k]
    /\ \A k \in DOMAIN desired : normalize_value(desired[k], k \in SetLike) = desired[k]

\* C3 as stated: the patch holds exactly the keys of desired with a non-null
\* value whose normalized value differs from current's value for the key.
PatchExactAsStated ==
    (dpc = "patched" /\ InputsNormalized) =>
        /\ DOMAIN patch = {k \in DOMAIN desired :
                              desired[k] # NoneVal /\ desired[k] # Get(current, k)}
        /\ \A k \in DOMAIN patch : patch[k] = desired[k]

\* C4: every key of the patch is a key of desired with a non-null desired
\* value; a key of current that desired lacks, or maps to null, is never patched.
NoDeletion ==
    dpc = "patched" =>
        /\ \A k \in DOMAIN patch : k \in DOMAIN desired /\ desired[k] # NoneVal
        /\ \A k \in DOMAIN current :
              (k \notin DOMAIN desired \/ desired[k] = NoneVal) => k \notin DOMAIN patch

NoDeletionWitness ==
    /\ dpc = "patched"
    /\ "protocols" \in DOMAIN current /\ current["protocols"] # NoneVal
    /\ "protocols" \in DOMAIN desired /\ desired["protocols"] = NoneVal
    /\ "s3_versioning" \in DOMAIN current /\ "s3_versioning" \notin DOMAIN desired
    /\ patch = EmptyDict

\* C5: values_equal(None, False) is true and values_equal(None, True) is false;
\* a desired false never enters the patch when current omits the field (or holds
\* null for it), a desired true always does.
FalseAbsence ==
    /\ \A sl \in BOOLEAN : values_equal(NoneVal, FalseVal, sl) /\ ~values_equal(NoneVal, TrueVal, sl)
    /\ dpc = "patched" =>
          \A k \in DOMAIN desired :
              Get(current, k) = NoneVal =>
                  /\ desired[k] = FalseVal => k \notin DOMAIN patch
                  /\ desired[k] = TrueVal => k \in DOMAIN patch /\ patch[k] = TrueVal

FalseAbsenceWitness ==
    /\ dpc = "patched"
    /\ "s3_versioning" \in DOMAIN desired /\ desired["s3_versioning"] = FalseVal
    /\ "s3_versioning" \notin DOMAIN current
    /\ "s3_versioning" \notin DOMAIN patch

\* C6: for a set-like field holding lists of hashable elements on both sides,
\* the field is left out of the patch exactly when the two lists have the same
\* set of elements; without the set-like classification the field is patched
\* whenever the two lists differ as sequences.
SetLikeOrderInsensitive ==
    dpc = "patched" =>
        \A k \in DOMAIN desired \cap DOMAIN current :
            (HashableList(current[k]) /\ HashableList(desired[k])) =>
                IF k \in SetLike
                THEN (k \notin DOMAIN patch) <=>
                         (Range(Items(current[k])) = Range(Items(desired[k])))
                ELSE (current[k] # desired[k]) => k \in DOMAIN patch

SetLikeOrderInsensitiveWitness ==
    /\ dpc = "patched"
    /\ "protocols" \in SetLike
    /\ "protocols" \in DOMAIN current /\ current["protocols"] = ListVal(<<"b", "a">>)
    /\ "protocols" \in DOMAIN desired /\ desired["protocols"] = ListVal(<<"a", "b">>)
    /\ "protocols" \notin DOMAIN patch

\* C7: normalizing a normalized resource again, with the same classification
\* and flags, changes nothing.
NormalizeIdempotent == dpc = "renormalized" => renormalized = normalized

NormalizeIdempotentWitness ==
    /\ dpc = "renormalized"
    /\ resource.some
    /\ "protocols" \in DOMAIN normalized
    /\ normalized["protocols"] # resource.d["protocols"]
    /\ DOMAIN normalized # DOMAIN resource.d
    /\ renormalized = normalized

\* C8: the normalized mapping holds no read-only field, no immutable field when
\* exclude_immutable is set, no ephemeral field unless include_ephemeral is set;
\* it keeps every other field of the resource (with its value, unless the field
\* is set-like) and nothing else, and it is empty for an absent or empty resource.
NormalizeFilters ==
    dpc # "start" =>
        LET read_only == OverridesGet(overrides, "read_only_fields")
            immutable == OverridesGet(overrides, "immutable_fields")
            ephemeral == OverridesGet(overrides, "ephemeral_fields")
            set_like  == OverridesGet(overrides, "set_like_lists")
            dropped(k) == \/ k \in read_only
                          \/ exclude_immutable /\ k \in immutable
                          \/ ~include_ephemeral /\ k \in ephemeral
        IN  /\ DOMAIN normalized \cap read_only = {}
            /\ exclude_immutable => DOMAIN normalized \cap immutable = {}
            /\ ~include_ephemeral => DOMAIN normalized \cap ephemeral = {}
            /\ DOMAIN normalized \subseteq DOMAIN resource.d
            /\ \A k \in DOMAIN resource.d :
                  (resource.some /\ ~dropped(k)) =>
                      /\ k \in DOMAIN normalized
                      /\ k \notin set_like => normalized[k] = resource.d[k]
            /\ (~resource.some \/ resource.d = EmptyDict) => normalized = EmptyDict

NormalizeFiltersWitness ==
    /\ dpc = "normalized"
    /\ overrides = ViewsOverrides
    /\ ~exclude_immutable /\ include_ephemeral
    /\ DOMAIN resource.d = Keys
    /\ DOMAIN normalized = Keys \ {"id", "guid"}

\* C18: has_changes(current, desired, c) is true exactly when
\* compute_patch(current, desired, c) is not empty, also when c is absent.
HasChangesIffPatch == dpc = "asked" => (changes <=> patch # EmptyDict)

HasChangesIffPatchWitness ==
    /\ dpc = "asked"
    /\ overrides = ViewsOverrides
    /\ "s3_versioning" \in DOMAIN desired /\ desired["s3_versioning"] = TrueVal
    /\ "s3_versioning" \notin DOMAIN current
    /\ changes

-----------------------------------------------------------------------------
(* Properties of the waiter *)

Last(s) == s[Len(s)]

\* no state reported before the latest poll was terminal
EarlierNonTerminal ==
    \A i \in 1..(Len(polled) - 1) :
        polled[i] \notin {"COMPLETED", "SUCCESS", "FAILED", "ERROR", "CANCELLED"}

\* C9: wait_for_task returns only when a poll reported COMPLETED or SUCCESS;
\* when the first terminal state reported is one of these, at the k-th poll, it
\* returns the status mapping of that poll after exactly k status queries, and
\* once returned it queries no more.
WaiterSuccessState ==
    /\ wpc = "returned" =>
          /\ polled # <<>>
          /\ Last(polled) \in {"COMPLETED", "SUCCESS"}
          /\ error = NoError
    /\ (polled # <<>> /\ Last(polled) \in {"COMPLETED", "SUCCESS"}) =>
          /\ wpc = "returned"
          /\ EarlierNonTerminal
          /\ queries = Len(polled)
          /\ result = task
          /\ Last(polled) = IF "state" \in DOMAIN task THEN task["state"] ELSE task["status"]

WaiterSuccess ==
    /\ []WaiterSuccessState
    /\ [][wpc = "returned" => (wpc' = "returned" /\ queries' = queries)]_vars

WaiterSuccessWitness ==
    /\ wpc = "returned"
    /\ polled = <<"PENDING", "RUNNING", "COMPLETED">>
    /\ queries = 3
    /\ result = TaskOf("state", "COMPLETED")

\* C10: when the first terminal state reported is FAILED, ERROR or CANCELLED, at
\* the k-th poll, wait_for_task raises a task-failure error after exactly k
\* status queries; the error embeds that state and the task's error text, else
\* its message text.
WaiterFailure ==
    /\ error.kind = "task_failed" =>
          /\ polled # <<>>
          /\ Last(polled) \in {"FAILED", "ERROR", "CANCELLED"}
    /\ (polled # <<>> /\ Last(polled) \in {"FAILED", "ERROR", "CANCELLED"}) =>
          /\ wpc = "raised"
          /\ EarlierNonTerminal
          /\ queries = Len(polled)
          /\ error.kind = "task_failed"
          /\ error.id = task_id
          /\ error.state = Last(polled)
          /\ error.text = IF "error" \in DOMAIN task THEN task["error"]
                          ELSE IF "message" \in DOMAIN task THEN task["message"]
                          ELSE "Unknown error"
          /\ result = EmptyTask

WaiterFailureWitness ==
    /\ wpc = "raised"
    /\ polled = <<"RUNNING", "FAILED">>
    /\ queries = 2
    /\ "error" \notin DOMAIN task
    /\ error = TaskFailedError(task_id, "FAILED", "aborted")

\* C11: wait_for_task raises a timeout error exactly at a deadline check that
\* finds the elapsed time at or beyond the timeout, no poll so far having
\* reported a terminal state; the error embeds the state of the most recent poll
\* (None before the first poll), and no status query follows a reached deadline.
WaiterTimeoutState ==
    /\ error.kind = "timeout" =>
          /\ wpc = "raised"
          /\ now - start_time >= timeout
          /\ \A i \in 1..Len(polled) :
                polled[i] \notin {"COMPLETED", "SUCCESS", "FAILED", "ERROR", "CANCELLED"}
          /\ queries = Len(polled)
          /\ error.id = task_id
          /\ error.state = IF polled = <<>> THEN "None" ELSE Last(polled)
          /\ result = EmptyTask
    /\ wpc = "query" => now - start_time < timeout

WaiterTimeout ==
    /\ []WaiterTimeoutState
    /\ [][(wpc = "loop" /\ now - start_time >= timeout)
             => (wpc' = "raised" /\ error'.kind = "timeout" /\ queries' = queries)]_vars

WaiterTimeoutWitness ==
    /\ wpc = "raised"
    /\ timeout = 1 /\ poll_interval = 1
    /\ polled = <<"RUNNING">>
    /\ error = [kind |-> "timeout", id |-> task_id, state |-> "RUNNING", text |-> ""]

-----------------------------------------------------------------------------
(* Properties of the CRUD lifecycle *)

\* two runs with state=present and check mode off have finished, the first
\* of them having sent an update that the remote stored
UpdatedThenRunAgain ==
    /\ Len(log) = 2
    /\ Get(params, "state") = StrVal("present")
    /\ ~check_mode
    /\ log[1].outcome = "exited"
    /\ \E i \in 1..Len(log[1].calls) : log[1].calls[i].op = "update"
    /\ log[2].outcome = "exited"

\* the second run computed an empty patch, called nothing, reported no change
SecondRunQuiet ==
    /\ log[2].patch = EmptyDict
    /\ log[2].calls = <<>>
    /\ ~log[2].changed

NoEphemeralCompared ==
    \/ ~include_ephemeral_in_updates
    \/ DOMAIN build_desired_state(params) \cap OverridesGet(overrides, "ephemeral_fields") = {}

\* the set-like lists of the desired state hold hashable elements
DesiredSetLikeHashable ==
    \A k \in DOMAIN build_desired_state(params) \cap OverridesGet(overrides, "set_like_lists") :
        IsList(params[k]) => HashableList(params[k])

ReadOnly == OverridesGet(overrides, "read_only_fields")
Ephemeral == OverridesGet(overrides, "ephemeral_fields")

\* C16: a field classified read-only appears in no patch run passes to update
\* and in no payload run passes to create.
ReadOnlyNeverSent ==
    \A i \in 1..Len(calls) :
        calls[i].op \in {"create", "update"} => DOMAIN calls[i].payload \cap ReadOnly = {}

\* a run with state=present has acted on an existing resource
RanUpdate ==
    /\ rpc \in {"exited", "failed"}
    /\ Get(params, "state") = StrVal("present")
    /\ Truthy(current)

\* the desired state without its ephemeral fields
WithoutEphemeral(des) == [k \in DOMAIN des \ Ephemeral |-> des[k]]

\* C17: with include_ephemeral_in_updates false, no ephemeral field is in the
\* patch of an update, and the patch, the update call and the reported change
\* are those of the desired state without its ephemeral fields; the payload of
\* a create holds every ephemeral field of the desired state, with its value.
EphemeralOnlyOnCreate ==
    ~include_ephemeral_in_updates =>
        /\ RanUpdate =>
              /\ DOMAIN patch \cap Ephemeral = {}
              /\ patch = compute_patch(normalize_resource(Some(current), overrides, TRUE, FALSE),
                                       normalize_resource(Some(WithoutEphemeral(desired)),
                                                          overrides, TRUE, FALSE),
                                       overrides)
              /\ changed => patch # EmptyDict
              /\ \A i \in 1..Len(calls) : calls[i] = Call("update", current["id"], patch)
        /\ \A i \in 1..Len(calls) :
              calls[i].op = "create" =>
                  \A k \in (DOMAIN params \cap Ephemeral) \ exclude_keys :
                      params[k] # NoneVal =>
                          k \in DOMAIN calls[i].payload /\ calls[i].payload[k] = params[k]

EphemeralOnlyOnCreateWitness ==
    /\ ~include_ephemeral_in_updates
    /\ overrides = ViewsOverrides
    /\ Len(log) = 2
    /\ \E i \in 1..Len(log[1].calls) :
          /\ log[1].calls[i].op = "create"
          /\ "create_dir" \in DOMAIN log[1].calls[i].payload
    /\ RanUpdate
    /\ "create_dir" \in DOMAIN desired
    /\ ~changed /\ patch = EmptyDict /\ calls = <<>>

-----------------------------------------------------------------------------
(* Properties of the task-id extractors and of the operations *)

IsIdentifier(v) == v[1] = "int" \/ (v[1] = "str" /\ v # StrVal(""))

\* the task reference a response carries, in the first of the three shapes that
\* holds an identifier; None when it carries none
TaskReference(r) ==
    IF "task_id" \in DOMAIN r /\ IsIdentifier(r["task_id"]) THEN r["task_id"]
    ELSE IF "async_task.id" \in DOMAIN r /\ IsIdentifier(r["async_task.id"])
         THEN r["async_task.id"]
    ELSE IF "async_task.task_id" \in DOMAIN r /\ IsIdentifier(r["async_task.task_id"])
         THEN r["async_task.task_id"]
    ELSE IF /\ "id" \in DOMAIN r /\ IsIdentifier(r["id"])
            /\ Get(r, "type") = StrVal("async_task")
         THEN r["id"]
    ELSE NoneVal

\* a create, update or delete flagged async, with wait enabled, has ended after
\* the API answered it
AsyncOpEnded ==
    /\ op \in {"create", "update", "delete"}
    /\ is_async /\ wait
    /\ opc \in {"returned", "raised"}
    /\ response.kind \in {"dict", "None"}

\* C13: an operation flagged async with wait enabled, whose response carries a
\* task reference in any of the three shapes, with any integer or string
\* identifier, has invoked wait_for_task with that identifier, and has returned
\* only after wait_for_task returned; when the response carries no task
\* reference it has made no task-status query.
WaitsBeforeCompletion ==
    AsyncOpEnded =>
        LET ref == TaskReference(OpResult(op, response).d)
        IN  IF ref # NoneVal
            THEN /\ wpc \in {"returned", "raised"}
                 /\ task_id = ref
                 /\ opc = "returned" => wpc = "returned"
            ELSE queries = 0 /\ wpc = "idle"

\* C19: with wait=False a create, update or delete of a ResourceManager makes
\* its one API call and no task-status query, whatever its async flag and its
\* response; it returns the response of the API (delete: the empty mapping when
\* the response is empty or None) and raises VastAPIError when the API call raises.
NoWaitNoQuery ==
    (layer = "ResourceManager" /\ op \in {"create", "update", "delete"} /\ ~wait) =>
        /\ queries = 0 /\ api_calls = 0 /\ wpc = "idle"
        /\ opc \in {"called", "returned", "raised"}
        /\ opc # "called" =>
              /\ api_log = <<[method |-> Method(op), by |-> ""]>>
              /\ IF response.kind = "exception"
                 THEN opc = "raised" /\ raised = "VastAPIError" /\ returned = Nothing
                 ELSE /\ opc = "returned" /\ raised = "none"
                      /\ returned = IF op = "delete" /\ response \in {NoneResult, DictResult(EmptyDict)}
                                    THEN DictResult(EmptyDict)
                                    ELSE response

NoWaitNoQueryWitness ==
    /\ layer = "ResourceManager" /\ op = "update"
    /\ is_async /\ ~wait
    /\ response = DictResult([task_id |-> IntVal("7")])
    /\ opc = "returned"
    /\ returned = response
    /\ queries = 0

\* C20: ResourceManager.get makes exactly one API get, filtered by the lookup
\* field; it returns None when the result is empty (or None), the first element
\* of a list, a non-empty mapping as it is, and raises VastAPIError, returning
\* nothing, when the API call raises.
ManagerGetOnce ==
    (op = "get" /\ opc # "called") =>
        /\ api_log = <<[method |-> "get", by |-> "name"]>>
        /\ IF response.kind = "exception"
           THEN opc = "raised" /\ raised = "VastAPIError" /\ returned = Nothing
           ELSE /\ opc = "returned" /\ raised = "none"
                /\ returned =
                      IF response.kind = "list" /\ response.items # <<>>
                      THEN DictResult(Head(response.items))
                      ELSE IF response.kind = "dict" /\ response.d # EmptyDict
                      THEN response
                      ELSE NoneResult

ManagerGetOnceWitness ==
    /\ op = "get" /\ opc = "returned"
    /\ response.kind = "list" /\ Len(response.items) = 2
    /\ response.items[1] # response.items[2]
    /\ returned = DictResult(response.items[1])

-----------------------------------------------------------------------------
(* Properties of wait_for_condition and wait_for_resource_state *)

\* C14: wait_for_condition returns exactly at the first call of the predicate
\* that returns true; a call that returns false or raises is followed by a sleep
\* of poll_interval and the next deadline check, its exception never leaving
\* wait_for_condition; the only error raised is the timeout error, at a deadline
\* check that finds the elapsed time at or beyond the timeout.
ConditionWaitState ==
    op = "wait_for_condition" =>
        /\ queries = Len(polled)
        /\ \A i \in 1..(Len(polled) - 1) : polled[i] # "True"
        /\ wpc = "returned" <=> (polled # <<>> /\ Last(polled) = "True")
        /\ error.kind \in {"none", "condition_timeout"}
        /\ wpc = "raised" <=> error.kind = "condition_timeout"
        /\ wpc = "raised" => now - start_time >= timeout
        /\ wpc = "check" => now - start_time < timeout

ConditionWait ==
    /\ []ConditionWaitState
    /\ [][(op = "wait_for_condition" /\ wpc = "check" /\ Last(polled') # "True")
             => wpc' = "sleep"]_vars
    /\ [][(op = "wait_for_condition" /\ wpc = "sleep")
             => (wpc' = "loop" /\ now' = now + poll_interval)]_vars
    /\ [][(op = "wait_for_condition" /\ wpc = "loop" /\ now - start_time >= timeout)
             => (wpc' = "raised" /\ error'.kind = "condition_timeout")]_vars

ConditionWaitWitness ==
    /\ op = "wait_for_condition"
    /\ wpc = "returned"
    /\ polled = <<"raises", "False", "True">>
    /\ now - start_time >= 2 * poll_interval

\* C15 as stated: whenever the polled state is ERROR, FAILED or DELETED,
\* whatever target_state is, wait_for_resource_state raises the fatal error at
\* that poll; otherwise it returns the resource at the first poll whose state
\* equals target_state.
ErrorStateFatalAsStated ==
    (op = "wait_for_resource_state" /\ polled # <<>>) =>
        IF Last(polled) \in {"ERROR", "FAILED", "DELETED"}
        THEN wpc = "raised" /\ error.kind = "resource_error"
        ELSE Last(polled) = target_state => (wpc = "returned" /\ result = task)

\* C15 (amended): wait_for_resource_state returns the resource at the first
\* poll whose state (field state, else status) equals target_state, also when
\* target_state is itself ERROR, FAILED or DELETED; at a poll whose state is
\* another of these three labels it raises the fatal error at once, without
\* sleeping, with that state and the resource's error text.  It returns and
\* raises the fatal error in no other case.
ErrorStateFatal ==
    op = "wait_for_resource_state" =>
        /\ wpc = "returned" =>
              /\ polled # <<>> /\ Last(polled) = target_state
              /\ result = task
              /\ target_state = IF "state" \in DOMAIN task THEN task["state"] ELSE task["status"]
        /\ error.kind = "resource_error" =>
              /\ wpc = "raised"
              /\ polled # <<>> /\ Last(polled) \in {"ERROR", "FAILED", "DELETED"}
              /\ Last(polled) # target_state
              /\ error.state = Last(polled)
              /\ error.text = IF "error" \in DOMAIN task THEN task["error"]
                              ELSE IF "message" \in DOMAIN task THEN task["message"]
                              ELSE "Unknown error"
        /\ polled # <<>> =>
              /\ Last(polled) = target_state => wpc = "returned"
              /\ (Last(polled) \in {"ERROR", "FAILED", "DELETED"} /\ Last(polled) # target_state)
                    => (wpc = "raised" /\ error.kind = "resource_error")
              /\ \A i \in 1..(Len(polled) - 1) :
                    polled[i] # target_state /\ polled[i] \notin {"ERROR", "FAILED", "DELETED"}

ErrorStateFatalWitness ==
    /\ op = "wait_for_resource_state"
    /\ target_state = "ACTIVE"
    /\ timeout = 3
    /\ polled = <<"CREATING", "DELETED">>
    /\ wpc = "raised"
    /\ error = [kind |-> "resource_error", id |-> <<>>, state |-> "DELETED", text |-> "aborted"]
    /\ now - start_time < timeout

-----------------------------------------------------------------------------
(* Properties of the status query *)

\* C21: a status query that raises a transient exception does not end
\* wait_for_task: the waiter sleeps poll_interval and polls again; the only
\* status-query failure that ends the wait with an error is the definitive
\* not-found of the task.
TransientRetried ==
    /\ [][(wpc = "query" /\ error'.kind = "get_failed") => error'.text = "not found"]_vars
    /\ [](error.kind = "get_failed" => error.text = "not found")

\* C22: wait_for_task fails with the endpoint-configuration error only at a
\* status query that probed both endpoints, vtasks and then async_tasks: an
\* unavailable vtasks endpoint alone makes the query fall back to async_tasks.
EndpointFallback ==
    [][(wpc = "query" /\ error'.kind = "unavailable") => api_calls' = api_calls + 2]_vars

-----------------------------------------------------------------------------
(* Properties of the diff engine on anomalous shapes *)

\* the first position of x in items
FirstIndex(items, x) == CHOOSE i \in 1..Len(items) : items[i] = x /\ \A j \in 1..(i - 1) : items[j] # x

\* r holds the elements of items once each, in the order they first appear
FirstSeenOrder(r, items) ==
    /\ Range(r) = Range(items)
    /\ \A i, j \in 1..Len(r) : i < j =>
          /\ r[i] # r[j]
          /\ FirstIndex(items, r[i]) < FirstIndex(items, r[j])

\* sorted(set(v)) cannot be computed: an element is a dict, or two elements are
\* of different types
Unsortable(v) ==
    /\ IsList(v)
    /\ \E x, y \in Range(Items(v)) : x = "{}" \/ ((x = "1") # (y = "1"))

Unhashable(v) == IsList(v) /\ "{}" \in Range(Items(v))

-----------------------------------------------------------------------------
(* Properties of the three waits together *)

\* C23: wait_for_task, wait_for_condition and wait_for_resource_state raise
\* their timeout error only in a state where the time elapsed since the wait
\* started is at least the timeout; a wait that ends without its success
\* condition ends with a VastAPIError raised to the caller, and a wait returns
\* normally only on its success condition.
NeverGivesUpEarlyState ==
    /\ error.kind \in {"timeout", "condition_timeout", "resource_timeout"} =>
          /\ wpc = "raised"
          /\ now - start_time >= timeout
    /\ error.kind \in {"none", "timeout", "task_failed", "unavailable", "get_failed",
                       "condition_timeout", "resource_timeout", "resource_error"}
    /\ wpc = "raised" <=> error.kind # "none"
    /\ wpc = "returned" =>
          /\ polled # <<>>
          /\ Last(polled) \in CASE op = "wait_for_condition" -> {"True"}
                                [] op = "wait_for_resource_state" -> {target_state}
                                [] OTHER -> {"COMPLETED", "SUCCESS"}
    /\ wpc \in {"called", "loop", "query", "check", "sleep", "returned", "raised"}

NeverGivesUpEarly ==
    /\ []NeverGivesUpEarlyState
    /\ [][(wpc = "loop" /\ now - start_time < timeout) => wpc' \in {"query", "check"}]_vars
    /\ [][(wpc \in {"returned", "raised"}) => (wpc' = wpc /\ error' = error /\ result' = result)]_vars

NeverGivesUpEarlyWitness ==
    /\ op = "wait_for_resource_state"
    /\ wpc = "raised"
    /\ error = [kind |-> "resource_timeout", id |-> <<>>, state |-> target_state, text |-> ""]
    /\ Len(polled) = 2
    /\ timeout = 2
    /\ now - start_time = timeout

-----------------------------------------------------------------------------
(* Termination and the deadline of wait_for_task *)

\* ceil(a / b) for a >= 0 and b > 0
Ceil(a, b) == (a + b - 1) \div b

\* C25: with poll_interval > 0 and a finite timeout, every execution of
\* wait_for_task eventually returns or raises, and it makes at most
\* ceil(timeout / poll_interval) status queries, whatever states the remote
\* reports.
WaitTerminates ==
    /\ [](queries <= Ceil(timeout, poll_interval))
    /\ <>(wpc \in {"returned", "raised"})

WaitTerminatesWitness ==
    /\ timeout = 3 /\ poll_interval = 2
    /\ queries = 2
    /\ polled = <<"UNKNOWN", "RUNNING">>
    /\ wpc = "raised"
    /\ error.kind = "timeout"

\* C26: wait_for_task makes a status query only right after a deadline check
\* that found the elapsed time below the timeout; after the sleep that crosses
\* the deadline it polls no more and raises the timeout error with the state of
\* the last poll, whatever the task has become meanwhile; with a timeout of
\* zero or less it raises the timeout error with no query made and the last
\* known state None.
DeadlineBeforeQuery ==
    /\ [](wpc = "query" => now - start_time < timeout)
    /\ [][queries' # queries =>
             (wpc = "query" /\ now - start_time < timeout /\ queries' = queries + 1)]_vars
    /\ [][(wpc = "sleep" /\ now + poll_interval - start_time >= timeout) =>
             (wpc' = "loop" /\ now' - start_time' >= timeout /\ queries' = queries)]_vars
    /\ [][(wpc = "loop" /\ now - start_time >= timeout) =>
             /\ wpc' = "raised"
             /\ error' = [kind |-> "timeout", id |-> task_id, state |-> last_state, text |-> ""]
             /\ queries' = queries /\ polled' = polled /\ result' = EmptyTask]_vars
    /\ []((timeout <= 0 /\ wpc \notin {"called", "loop"}) =>
             /\ wpc = "raised"
             /\ queries = 0 /\ api_calls = 0
             /\ error = [kind |-> "timeout", id |-> task_id, state |-> "None", text |-> ""])
    /\ []((wpc = "raised" /\ error.kind = "timeout") => queries = Len(polled))

DeadlineBeforeQueryWitness ==
    /\ timeout = 2 /\ poll_interval = 2
    /\ wpc = "raised"
    /\ polled = <<"RUNNING">>
    /\ queries = 1
    /\ now - start_time = 2
    /\ error = [kind |-> "timeout", id |-> task_id, state |-> "RUNNING", text |-> ""]

\* C27: the state of a polled status is its field state, else its field
\* status, else UNKNOWN; on a state outside COMPLETED, SUCCESS, FAILED, ERROR
\* and CANCELLED (UNKNOWN and differently-cased labels included) wait_for_task
\* neither returns nor raises a task-failure error but sleeps and goes on to the
\* next deadline check; SUCCESS_STATES is a subset of TERMINAL_STATES.
StateClassificationState ==
    /\ polled # <<>> =>
          Last(polled) = IF "state" \in DOMAIN task THEN task["state"]
                         ELSE IF "status" \in DOMAIN task THEN task["status"]
                         ELSE "UNKNOWN"
    /\ (polled # <<>> /\ Last(polled) \notin {"COMPLETED", "SUCCESS", "FAILED", "ERROR", "CANCELLED"}) =>
          /\ wpc \in {"sleep", "loop", "query", "raised"}
          /\ result = EmptyTask
          /\ error.kind \in {"none", "timeout", "get_failed", "unavailable"}
    /\ SUCCESS_STATES \subseteq TERMINAL_STATES
    /\ SUCCESS_STATES = {"COMPLETED", "SUCCESS"}
    /\ TERMINAL_STATES = {"COMPLETED", "SUCCESS", "FAILED", "ERROR", "CANCELLED"}

StateClassification ==
    /\ []StateClassificationState
    /\ [][(wpc = "query" /\ polled' # polled
           /\ Last(polled') \notin {"COMPLETED", "SUCCESS", "FAILED", "ERROR", "CANCELLED"})
             => (wpc' = "sleep" /\ error' = error /\ result' = result)]_vars
    /\ [][(wpc = "sleep" /\ now + poll_interval - start_time < timeout)
             => (wpc' = "loop" /\ now' - start_time' < timeout)]_vars

StateClassificationWitness ==
    /\ polled = <<"UNKNOWN", "completed", "RUNNING">>
    /\ task = TaskOf("status", "RUNNING")
    /\ wpc = "sleep"
    /\ queries = 3

-----------------------------------------------------------------------------
(* Properties of the three extractors together *)

\* C28: for every response mapping, waiter.extract_task_id,
\* ResourceManager._extract_task_id and BaseResource._extract_task_id return the
\* same identifier, or all return null, and none of them raises.
ExtractorsAgree ==
    /\ \A who \in {"waiter", "manager", "resource"} :
          extracted[who].raised \in {"not_called", "none"}
    /\ \A who, other \in {"waiter", "manager", "resource"} :
          (extracted[who] # NotExtracted /\ extracted[other] # NotExtracted)
             => extracted[who] = extracted[other]

-----------------------------------------------------------------------------
(* Properties of check mode and of state=absent *)

\* the changed value a run without check mode reports from the current
\* resource and the desired state: a delete of an existing resource, a create
\* of a missing one, or an update with a non-empty patch
WouldReport ==
    IF Get(params, "state") = StrVal("absent") THEN Truthy(current)
    ELSE ~Truthy(current) \/ Truthy(patch)

SpecialAsked ==
    \E o \in {"set_posix_primary", "revoke", "revoke_access_keys"} :
        o \in DOMAIN params /\ params[o] = TrueVal

\* C29 as stated: in check mode run never calls create, update or delete on the
\* remote client and leaves the remote as it is, and a run that exits reports
\* the changed value the run without check mode reports from the same current
\* and desired state.
CheckModeAsStated ==
    /\ check_mode => calls = <<>>
    /\ rpc = "exited" => changed = WouldReport

\* C29 (amended): in check mode run never calls create, update or delete on the
\* remote client and leaves the remote as it is.  Unless a special-operation
\* parameter (set_posix_primary, revoke, revoke_access_keys) is set, a run that
\* exits reports the changed value the run without check mode reports from the
\* same current and desired state; with such a parameter set, run in check mode
\* exits with changed=true while run without check mode fails.
CheckModeState ==
    /\ check_mode => calls = <<>>
    /\ check_mode => \A i \in 1..Len(log) : log[i].calls = <<>>
    /\ (rpc = "exited" /\ ~SpecialAsked) => changed = WouldReport
    /\ (rpc = "exited" /\ SpecialAsked) => (check_mode /\ changed)
    /\ (SpecialAsked /\ ~check_mode /\ rpc # "start") => (rpc = "failed" /\ ~changed)

CheckMode ==
    /\ []CheckModeState
    /\ [][check_mode => remote' = remote]_vars

CheckModeWitness ==
    /\ check_mode
    /\ ~SpecialAsked
    /\ rpc = "exited"
    /\ Len(log) = 1
    /\ Truthy(current)
    /\ Get(params, "state") = StrVal("present")
    /\ DOMAIN patch = {"protocols", "s3_versioning"}
    /\ changed
    /\ calls = <<>>
    /\ remote.some

\* state=absent was asked for and the run is over
AbsentRunOver == Get(params, "state") = StrVal("absent") /\ rpc \in {"exited", "failed"}

\* the only call an absent run makes: delete of the current resource, when
\* there is one and check mode is off
AbsentCalls ==
    IF Truthy(current) /\ ~check_mode
    THEN <<[op |-> "delete", id |-> current["id"], payload |-> EmptyDict]>>
    ELSE <<>>

\* a second absent run that exits after a first one that deleted the resource
\* makes no call and reports changed=false
SecondAbsentQuiet ==
    (/\ Get(params, "state") = StrVal("absent")
     /\ Len(log) = 2
     /\ log[1].outcome = "exited" /\ log[1].calls # <<>>
     /\ log[2].outcome = "exited")
        => (~log[2].changed /\ log[2].calls = <<>>)

\* C30 as stated: with state=absent run calls delete exactly once, with the
\* current resource's id, iff the resource exists and check mode is off, and
\* exits with changed=true iff the resource exists; when it does not exist run
\* makes no call and reports changed=false, as does a second absent run after
\* a successful delete.
AbsentIdempotentAsStated ==
    /\ AbsentRunOver =>
          /\ calls = AbsentCalls
          /\ rpc = "exited" => changed = Truthy(current)
    /\ SecondAbsentQuiet

\* C30 (amended): the same, for runs with no special-operation parameter set;
\* with one set, run makes no call at all and, in check mode, exits with
\* changed=true whether or not the resource exists.
AbsentIdempotent ==
    /\ (AbsentRunOver /\ ~SpecialAsked) =>
          /\ calls = AbsentCalls
          /\ rpc = "exited" => changed = Truthy(current)
    /\ (AbsentRunOver /\ SpecialAsked) =>
          /\ calls = <<>>
          /\ rpc = "exited" => (check_mode /\ changed)
    /\ ~SpecialAsked => SecondAbsentQuiet

AbsentIdempotentWitness ==
    /\ ~SpecialAsked
    /\ ~check_mode
    /\ Get(params, "state") = StrVal("absent")
    /\ Len(log) = 2
    /\ log[1].outcome = "exited" /\ log[1].changed
    /\ log[1].calls = <<[op |-> "delete", id |-> IntVal("7"), payload |-> EmptyDict]>>
    /\ log[2] = [outcome |-> "exited", changed |-> FALSE, patch |-> EmptyDict, calls |-> <<>>]
    /\ ~remote.some

====
